---- MODULE Spec2Model ----
(***************************************************************************)
(* Model of the OCI Data Science MCP server (server.py): the validation    *)
(* helpers _require / _at_least_one, the envelope builder _ok, and the     *)
(* nine action-dispatching tool handlers.  One action of the model is one  *)
(* complete call of a helper or of a tool handler.  The provider (ADS and  *)
(* OCI SDK clients) is an oracle: every provider operation either returns  *)
(* data or raises, chosen nondeterministically per invocation.             *)
(***************************************************************************)
EXTENDS Integers, Sequences, FiniteSets, TLC

(***************************************************************************)
(* Bounds of the model.                                                    *)
(***************************************************************************)
MaxStrLen == 2      \* longest string handed to the helpers
MaxPairs  == 2      \* most (name, value) pairs handed to _at_least_one
MaxItems  == 2      \* longest listing a provider returns

(***************************************************************************)
(* Python values.  A string is its sequence of characters, so that         *)
(* str.strip() and truthiness are computed, not assumed.                   *)
(***************************************************************************)
None     == [t |-> "none", s |-> <<>>, n |-> 0]
PyStr(s)   == [t |-> "str",  s |-> s,    n |-> 0]
PyInt(n)   == [t |-> "int",  s |-> <<>>, n |-> n]
PyBool(b)  == [t |-> "bool", s |-> <<>>, n |-> IF b THEN 1 ELSE 0]
Lit(w)   == PyStr(<<w>>)   \* a literal of the source, kept as one token

Whitespace == {" ", "\t"}
Chars      == {" ", "\t", "a"}

RECURSIVE LStrip(_)
LStrip(s) == IF s # <<>> /\ Head(s) \in Whitespace THEN LStrip(Tail(s)) ELSE s

RECURSIVE RStrip(_)
RStrip(s) ==
    IF s # <<>> /\ s[Len(s)] \in Whitespace
    THEN RStrip(SubSeq(s, 1, Len(s) - 1))
    ELSE s

\* str.strip()
Strip(s) == RStrip(LStrip(s))

\* bool(v) as Python's `if v:` computes it
Truthy(v) ==
    CASE v.t = "none" -> FALSE
      [] v.t = "str"  -> v.s # <<>>
      [] v.t = "int"  -> v.n # 0
      [] v.t = "bool" -> v.n # 0
      [] OTHER        -> TRUE

(***************************************************************************)
(* Outcomes of a call: it returns, or it raises.                           *)
(***************************************************************************)
Returned == [raised |-> FALSE, etype |-> "", msg |-> "", origin |-> ""]
Raise(etype, msg, origin) ==
    [raised |-> TRUE, etype |-> etype, msg |-> msg, origin |-> origin]

\* _require with `if not value` as its test: every falsy value is rejected and a
\* whitespace-only string is accepted
_require_falsy(value, name, action) ==
    IF ~Truthy(value)
    THEN Raise("ValueError",
               "Missing required parameter '" \o name
                   \o "' for action='" \o action \o "'.",
               "validation")
    ELSE Returned

\* _require(value, name, action=action)
_require(value, name, action) ==
    IF value.t = "none" \/ (value.t = "str" /\ Strip(value.s) = <<>>)
    THEN Raise("ValueError",
               "Missing required parameter '" \o name
                   \o "' for action='" \o action \o "'.",
               "validation")
    ELSE Returned

\* ", ".join(k for k, _ in pairs)
RECURSIVE JoinKeys(_)
JoinKeys(pairs) ==
    IF pairs = <<>> THEN ""
    ELSE IF Len(pairs) = 1 THEN pairs[1][1]
    ELSE pairs[1][1] \o ", " \o JoinKeys(Tail(pairs))

\* _at_least_one with all() in place of any(): one missing value is enough to fail
_at_least_one_all(pairs, action) ==
    IF ~ \A i \in 1..Len(pairs) :
            /\ pairs[i][2].t # "none"
            /\ (pairs[i][2].t # "str" \/ Strip(pairs[i][2].s) # <<>>)
    THEN Raise("ValueError",
               "At least one of [" \o JoinKeys(pairs)
                   \o "] must be provided for action='" \o action \o "'.",
               "validation")
    ELSE Returned

\* _at_least_one(*pairs, action=action)
_at_least_one(pairs, action) ==
    IF ~ \E i \in 1..Len(pairs) :
            /\ pairs[i][2].t # "none"
            /\ (pairs[i][2].t # "str" \/ Strip(pairs[i][2].s) # <<>>)
    THEN Raise("ValueError",
               "At least one of [" \o JoinKeys(pairs)
                   \o "] must be provided for action='" \o action \o "'.",
               "validation")
    ELSE Returned

\* the first check of a sequence of checks that raises, if any
RECURSIVE FirstRaised(_)
FirstRaised(checks) ==
    IF checks = <<>> THEN Returned
    ELSE IF Head(checks).raised THEN Head(checks)
    ELSE FirstRaised(Tail(checks))

(***************************************************************************)
(* _ok(resource, action, result, **extra).  Python binds the three named   *)
(* parameters before the body runs: a keyword of the same name in **extra  *)
(* makes the call itself raise TypeError.  The body then builds the fixed  *)
(* fields and payload.update(extra) lets the extra entries overwrite.      *)
(***************************************************************************)
FixedFields == {"resource", "action", "result"}
NoExtra     == [k \in {} |-> None]

Error(e)    == [kind |-> "error", etype |-> e.etype, msg |-> e.msg, origin |-> e.origin]
Ok(payload) == [kind |-> "ok", payload |-> payload]

\* _ok that leaves a None result out of the payload
_ok_drop_null(resource, action, result, extra) ==
    IF DOMAIN extra \cap FixedFields # {}
    THEN Error(Raise("TypeError",
                     "_ok() got multiple values for argument",
                     "call"))
    ELSE IF result.t = "none"
    THEN Ok(extra @@ [resource |-> resource, action |-> action])
    ELSE Ok(extra @@ [resource |-> resource, action |-> action, result |-> result])

_ok(resource, action, result, extra) ==
    IF DOMAIN extra \cap FixedFields # {}
    THEN Error(Raise("TypeError",
                     "_ok() got multiple values for argument",
                     "call"))
    ELSE Ok(extra @@ [resource |-> resource, action |-> action, result |-> result])

VARIABLES
    req,       \* the tool invocation being served: tool, action, parameters
    clients,   \* provider clients constructed by the invocation, in order
    calls,     \* provider operations invoked by the invocation, in order
    out,       \* how the invocation ended: a payload or a raised error
    helper,    \* the last direct call of a helper and how it ended
    inv,       \* the frames of the invocations of job_runs served in parallel
    runs       \* the provider's runs of one job, in the order they were created

vars == <<req, clients, calls, out, helper, inv, runs>>

NoReq    == [tool |-> "none", action |-> "none"]
NoHelper == [fn |-> "none"]

\* the invocations the transport serves in parallel, and the frame of one that
\* has not been entered
Invocations == {1, 2}
IdleFrame   == [pc |-> "idle", job_run_id |-> None]

\* no call is being served: the state between two invocations
Idle == req = NoReq /\ helper = NoHelper

Init ==
    /\ req = NoReq
    /\ clients = <<>>
    /\ calls = <<>>
    /\ out = [kind |-> "none"]
    /\ helper = NoHelper
    /\ inv = [i \in Invocations |-> IdleFrame]
    /\ runs = <<>>

(***************************************************************************)
(* Direct calls of the helpers, on inputs drawn from bounded sets.         *)
(***************************************************************************)
Strings == UNION {[1..k -> Chars] : k \in 0..MaxStrLen}
Values  == {None, PyInt(0), PyInt(1), PyBool(FALSE), PyBool(TRUE)}
               \cup {PyStr(s) : s \in Strings}
Names   == {"a", "b"}
Actions == {"x", "update"}

CallRequire ==
    /\ Idle
    /\ \E v \in Values, nm \in Names, a \in Actions :
        /\ helper' = [fn |-> "_require", value |-> v, name |-> nm, action |-> a,
                      out |-> _require(v, nm, a)]
        /\ UNCHANGED <<req, clients, calls, out, inv, runs>>

PairValues == {None, PyInt(0), PyBool(FALSE), PyStr(<<>>), PyStr(<<" ">>),
               PyStr(<<"a">>), PyStr(<<" ", "a">>)}
PairLists  == UNION {[1..k -> Names \X PairValues] : k \in 0..MaxPairs}

CallAtLeastOne ==
    /\ Idle
    /\ \E ps \in PairLists, a \in Actions :
        /\ helper' = [fn |-> "_at_least_one", pairs |-> ps, action |-> a,
                      out |-> _at_least_one(ps, a)]
        /\ UNCHANGED <<req, clients, calls, out, inv, runs>>

ExtraKeys  == {"resource", "action", "result", "message", "compartment_id"}
ExtraMaps  == UNION {[K -> {Lit("x"), Lit("e")}] : K \in SUBSET ExtraKeys}
OkResults  == {None, PyInt(1), Lit("x")}

CallOk ==
    /\ Idle
    /\ \E r \in {"projects", "jobs"}, a \in {"list", "create"}, res \in OkResults,
          ex \in ExtraMaps :
        /\ helper' = [fn |-> "_ok", resource |-> r, action |-> a, result |-> res,
                      extra |-> ex, out |-> _ok(r, a, res, ex)]
        /\ UNCHANGED <<req, clients, calls, out, inv, runs>>

(***************************************************************************)
(* The provider.  An object of the provider carries the attributes the     *)
(* handlers read; a provider operation returns data or raises.  The oracle *)
(* of an invocation fixes what the configuration load, the client          *)
(* constructors and the first and second provider operation will do.       *)
(***************************************************************************)
Item1   == [id |-> PyStr(<<"r", "1">>), name |-> PyStr(<<"n", "1">>), project_id |-> PyStr(<<"a">>)]
Item2   == [id |-> PyStr(<<"r", "2">>), name |-> PyStr(<<"n", "2">>), project_id |-> PyStr(<<"b">>)]
ItemSet == {Item1, Item2}
Lists   == UNION {[1..k -> ItemSet] : k \in 0..MaxItems}

ProviderErrors == {[etype |-> "RuntimeError", msg |-> "boom"],
                   [etype |-> "TypeError", msg |-> "unexpected keyword argument"]}

Failed(e)    == [ok |-> FALSE, etype |-> e.etype, msg |-> e.msg, data |-> <<>>, obj |-> Item1]
GaveList(l)  == [ok |-> TRUE, etype |-> "", msg |-> "", data |-> l, obj |-> Item1]
GaveObj(x)   == [ok |-> TRUE, etype |-> "", msg |-> "", data |-> <<>>, obj |-> x]
NotCalled    == GaveList(<<>>)

Failures  == {Failed(e) : e \in ProviderErrors}
ListResps == Failures \cup {GaveList(l) : l \in Lists}
ObjResps  == Failures \cup {GaveObj(x) : x \in ItemSet}
VoidResps == Failures \cup {NotCalled}
Unused    == {NotCalled}

\* the exception a failed provider operation raises
RespError(r) == Raise(r.etype, r.msg, "provider")
\* the exception a failing client constructor raises
CtorError    == Raise("RuntimeError", "boom", "provider")

Call(op, args, r) == [op |-> op, args |-> args, resp |-> r]

\* an invocation that ended: the clients it built, the operations it invoked,
\* and the payload it returned or the error it raised
Ended(cl, cs, o) == [clients |-> cl, calls |-> cs, out |-> o]
Raised(cl, cs, e) == Ended(cl, cs, Error(e))

\* get_oci_config() with config = {} set before the try: a failed load is
\* logged and the empty configuration returned
get_oci_config_empty_on_failure(o) ==
    [raised |-> FALSE, etype |-> "", msg |-> "", origin |-> "",
     config |-> IF o.cfg THEN {"tenancy", "additional_user_agent"} ELSE {}]

\* get_oci_config(): a failed load is logged and swallowed, and the return
\* statement then reads the unbound local `config`
get_oci_config(o) ==
    IF o.cfg
    THEN [raised |-> FALSE, etype |-> "", msg |-> "", origin |-> "",
          config |-> {"tenancy", "additional_user_agent"}]
    ELSE [raised |-> TRUE, etype |-> "UnboundLocalError",
          msg |-> "cannot access local variable 'config'", origin |-> "config",
          config |-> {}]

\* get_identity_client() / get_data_science_client(): a client built from
\* get_oci_config()
get_client(o) ==
    IF get_oci_config(o).raised
    THEN [raised |-> TRUE, etype |-> get_oci_config(o).etype,
          msg |-> get_oci_config(o).msg, origin |-> get_oci_config(o).origin]
    ELSE IF ~o.ctor THEN CtorError
    ELSE Returned

\* the slice rows[-limit:], the last entries in place of the first
SliceTail(rows, limit) ==
    IF limit.n > 0
    THEN SubSeq(rows, IF limit.n < Len(rows) THEN Len(rows) - limit.n + 1 ELSE 1, Len(rows))
    ELSE rows

\* rows[:limit]
Slice(rows, limit) ==
    IF limit.n >= 0
    THEN SubSeq(rows, 1, IF limit.n < Len(rows) THEN limit.n ELSE Len(rows))
    ELSE SubSeq(rows, 1, IF Len(rows) + limit.n > 0 THEN Len(rows) + limit.n ELSE 0)

Dict(d)  == [t |-> "dict", d |-> d]
List(l)  == [t |-> "list", l |-> l]

Unsupported(action) ==
    Raise("ValueError", "Unsupported action='" \o action \o "'", "unsupported")

(***************************************************************************)
(* 1) oci_ds_compartments                                                  *)
(***************************************************************************)
oci_ds_compartments(action, p, o) ==
    IF get_oci_config(o).raised
    THEN Raised(<<>>, <<>>, get_client(o))
    ELSE IF get_client(o).raised
    THEN Raised(<<>>, <<>>, get_client(o))
    ELSE LET cl == <<"IdentityClient">>
             c  == Call("list_compartments",
                        [compartment_id_in_subtree |-> PyBool(TRUE),
                         access_level |-> Lit("ANY")], o.r1)
         IN IF ~o.r1.ok
            THEN Raised(cl, <<c>>, RespError(o.r1))
            ELSE Ended(cl, <<c>>,
                       _ok("compartments", action,
                           Dict([by_name |-> {<<x.name, x.id>> : x \in
                                               {o.r1.data[i] : i \in 1..Len(o.r1.data)}},
                                 compartments |-> [i \in 1..Len(o.r1.data) |->
                                     [name |-> o.r1.data[i].name,
                                      id |-> o.r1.data[i].id]]]),
                           NoExtra))

(***************************************************************************)
(* 2) data_science_projects                                                *)
(***************************************************************************)
projects_count(action, p, o, cl) ==
    LET c == Call("list_projects", NoExtra, o.r1)
    IN IF ~o.r1.ok THEN Raised(cl, <<c>>, RespError(o.r1))
       ELSE Ended(cl, <<c>>,
                  _ok("projects", action, PyInt(Len(o.r1.data)),
                      [compartment_id |-> p.compartment_id]))

projects_list(action, p, o, cl) ==
    LET c    == Call("list_projects", NoExtra, o.r1)
        rows == [i \in 1..Len(o.r1.data) |->
                    [project_id |-> o.r1.data[i].id,
                     project_name |-> o.r1.data[i].name]]
    IN IF ~o.r1.ok THEN Raised(cl, <<c>>, RespError(o.r1))
       ELSE Ended(cl, <<c>>,
                  _ok("projects", action,
                      List(IF p.limit.t # "none" THEN Slice(rows, p.limit) ELSE rows),
                      [compartment_id |-> p.compartment_id]))

projects_create(action, p, o, cl) ==
    LET chk == _require(p.project_name, "project_name", action)
        c   == Call("create_project",
                    [display_name |-> p.project_name,
                     description |-> p.project_description,
                     compartment_id |-> p.compartment_id], o.r1)
    IN IF chk.raised THEN Raised(cl, <<>>, chk)
       ELSE IF ~o.r1.ok THEN Raised(cl, <<c>>, RespError(o.r1))
       ELSE Ended(cl, <<c>>,
                  _ok("projects", action,
                      Dict([project_id |-> o.r1.obj.id,
                            project_name |-> o.r1.obj.name]),
                      [next_actions |-> <<"data_science_notebook_sessions(action='create')",
                           "data_science_jobs(action='create_script'|'create_container')">>]))

\* projects update that carries every value that is not None
projects_update_carry_not_none(action, p, o, cl) ==
    LET chk    == FirstRaised(<<_require(p.project_id, "project_id", action),
                                _at_least_one(<<<<"new_name", p.new_name>>,
                                                <<"new_description", p.new_description>>>>,
                                              action)>>)
        kwargs == (IF p.new_name.t # "none"
                   THEN [display_name |-> p.new_name] ELSE NoExtra)
                  @@ (IF p.new_description.t # "none"
                      THEN [description |-> p.new_description] ELSE NoExtra)
        c      == Call("update_project", [project_id |-> p.project_id] @@ kwargs, o.r1)
    IN IF chk.raised THEN Raised(cl, <<>>, chk)
       ELSE IF ~o.r1.ok THEN Raised(cl, <<c>>, RespError(o.r1))
       ELSE Ended(cl, <<c>>,
                  _ok("projects", action,
                      Dict([project_id |-> p.project_id, updated |-> PyBool(TRUE)]),
                      [compartment_id |-> p.compartment_id]))

projects_update(action, p, o, cl) ==
    LET chk    == FirstRaised(<<_require(p.project_id, "project_id", action),
                                _at_least_one(<<<<"new_name", p.new_name>>,
                                                <<"new_description", p.new_description>>>>,
                                              action)>>)
        kwargs == (IF Truthy(p.new_name)
                   THEN [display_name |-> p.new_name] ELSE NoExtra)
                  @@ (IF Truthy(p.new_description)
                      THEN [description |-> p.new_description] ELSE NoExtra)
        c      == Call("update_project", [project_id |-> p.project_id] @@ kwargs, o.r1)
    IN IF chk.raised THEN Raised(cl, <<>>, chk)
       ELSE IF ~o.r1.ok THEN Raised(cl, <<c>>, RespError(o.r1))
       ELSE Ended(cl, <<c>>,
                  _ok("projects", action,
                      Dict([project_id |-> p.project_id, updated |-> PyBool(TRUE)]),
                      [compartment_id |-> p.compartment_id]))

\* projects delete that calls delete_project before it checks project_id
projects_delete_call_first(action, p, o, cl) ==
    LET chk == _require(p.project_id, "project_id", action)
        c   == Call("delete_project", [project_id |-> p.project_id], o.r1)
    IN IF ~o.r1.ok THEN Raised(cl, <<c>>, RespError(o.r1))
       ELSE IF chk.raised THEN Raised(cl, <<c>>, chk)
       ELSE Ended(cl, <<c>>,
                  _ok("projects", action,
                      Dict([project_id |-> p.project_id, deleted |-> PyBool(TRUE)]),
                      [compartment_id |-> p.compartment_id]))

projects_delete(action, p, o, cl) ==
    LET chk == _require(p.project_id, "project_id", action)
        c   == Call("delete_project", [project_id |-> p.project_id], o.r1)
    IN IF chk.raised THEN Raised(cl, <<>>, chk)
       ELSE IF ~o.r1.ok THEN Raised(cl, <<c>>, RespError(o.r1))
       ELSE Ended(cl, <<c>>,
                  _ok("projects", action,
                      Dict([project_id |-> p.project_id, deleted |-> PyBool(TRUE)]),
                      [compartment_id |-> p.compartment_id]))

data_science_projects(action, p, o) ==
    IF ~o.ctor THEN Raised(<<>>, <<>>, CtorError)
    ELSE LET cl == <<"ProjectCatalog">>
         IN CASE action = "count"  -> projects_count(action, p, o, cl)
              [] action = "list"   -> projects_list(action, p, o, cl)
              [] action = "create" -> projects_create(action, p, o, cl)
              [] action = "update" -> projects_update(action, p, o, cl)
              [] action = "delete" -> projects_delete(action, p, o, cl)
              [] OTHER             -> Raised(cl, <<>>, Unsupported(action))

(***************************************************************************)
(* 3) data_science_model_catalog                                           *)
(***************************************************************************)
ModelRows(models) ==
    [i \in 1..Len(models) |->
        [model_id |-> models[i].id, display_name |-> models[i].name,
         project_id |-> models[i].project_id]]

\* [m for m in models if getattr(m, "project_id", None) == project_id]
RECURSIVE FilterByProject(_, _)
FilterByProject(models, project_id) ==
    IF models = <<>> THEN <<>>
    ELSE IF Head(models).project_id = project_id
    THEN <<Head(models)>> \o FilterByProject(Tail(models), project_id)
    ELSE FilterByProject(Tail(models), project_id)

model_catalog_count(action, p, o) ==
    IF ~o.ctor THEN Raised(<<>>, <<>>, CtorError)
    ELSE LET cl == <<"ModelCatalog">>
             c  == Call("list_models", NoExtra, o.r1)
         IN IF ~o.r1.ok THEN Raised(cl, <<c>>, RespError(o.r1))
            ELSE Ended(cl, <<c>>,
                       _ok("model_catalog", action, PyInt(Len(o.r1.data)),
                           [compartment_id |-> p.compartment_id]))

\* list_models whose fallback returns the unfiltered listing as it is
model_catalog_list_models_unfiltered(action, p, o) ==
    IF ~o.ctor THEN Raised(<<>>, <<>>, CtorError)
    ELSE LET cl   == <<"ModelCatalog">>
             c1   == Call("list_models",
                          IF Truthy(p.project_id)
                          THEN [project_id |-> p.project_id] ELSE NoExtra, o.r1)
             c2   == Call("list_models", NoExtra, o.r2)
             fin(cs, models) ==
                 Ended(cl, cs,
                       _ok("model_catalog", action,
                           List(IF p.limit.t # "none"
                                THEN Slice(ModelRows(models), p.limit)
                                ELSE ModelRows(models)),
                           [compartment_id |-> p.compartment_id]))
         IN IF o.r1.ok THEN fin(<<c1>>, o.r1.data)
            ELSE IF Truthy(p.project_id) /\ o.r1.etype = "TypeError"
            THEN IF o.r2.ok
                 THEN fin(<<c1, c2>>, o.r2.data)
                 ELSE Raised(cl, <<c1, c2>>, RespError(o.r2))
            ELSE Raised(cl, <<c1>>, RespError(o.r1))

model_catalog_list_models(action, p, o) ==
    IF ~o.ctor THEN Raised(<<>>, <<>>, CtorError)
    ELSE LET cl   == <<"ModelCatalog">>
             c1   == Call("list_models",
                          IF Truthy(p.project_id)
                          THEN [project_id |-> p.project_id] ELSE NoExtra, o.r1)
             c2   == Call("list_models", NoExtra, o.r2)
             fin(cs, models) ==
                 Ended(cl, cs,
                       _ok("model_catalog", action,
                           List(IF p.limit.t # "none"
                                THEN Slice(ModelRows(models), p.limit)
                                ELSE ModelRows(models)),
                           [compartment_id |-> p.compartment_id]))
         IN IF o.r1.ok THEN fin(<<c1>>, o.r1.data)
            ELSE IF Truthy(p.project_id) /\ o.r1.etype = "TypeError"
            THEN IF o.r2.ok
                 THEN fin(<<c1, c2>>, FilterByProject(o.r2.data, p.project_id))
                 ELSE Raised(cl, <<c1, c2>>, RespError(o.r2))
            ELSE Raised(cl, <<c1>>, RespError(o.r1))

model_catalog_download(action, p, o) ==
    LET chk == FirstRaised(<<_require(p.model_id, "model_id", action),
                             _require(p.target_dir, "target_dir", action)>>)
        c1  == Call("GenericModel.from_id", [model_id |-> p.model_id], o.r1)
        c2  == Call("download_artifact", [artifact_dir |-> p.target_dir], o.r2)
        \* try: from_id; download_artifact  except Exception: logged only
        cs  == IF o.r1.ok THEN <<c1, c2>> ELSE <<c1>>
    IN IF chk.raised THEN Raised(<<>>, <<>>, chk)
       ELSE Ended(<<>>, cs,
                  _ok("model_catalog", action,
                      Dict([artifact_dir |-> p.target_dir,
                            downloaded_files_count |-> PyInt(o.files)]),
                      [compartment_id |-> p.compartment_id]))

model_catalog_list_version_sets(action, p, o) ==
    IF get_client(o).raised THEN Raised(<<>>, <<>>, get_client(o))
    ELSE LET cl   == <<"DataScienceClient">>
             c    == Call("list_model_version_sets",
                          [compartment_id |-> p.compartment_id], o.r1)
             rows == [i \in 1..Len(o.r1.data) |->
                         [id |-> o.r1.data[i].id, name |-> o.r1.data[i].name]]
         IN IF ~o.r1.ok THEN Raised(cl, <<c>>, RespError(o.r1))
            ELSE Ended(cl, <<c>>,
                       _ok("model_catalog", action,
                           List(IF p.limit.t # "none" THEN Slice(rows, p.limit) ELSE rows),
                           [compartment_id |-> p.compartment_id]))

model_catalog_version_set_attributes(action, p, o) ==
    LET chk == _require(p.model_version_set_id, "model_version_set_id", action)
        c   == Call("ModelVersionSet.from_id",
                    [model_version_set_id |-> p.model_version_set_id], o.r1)
    IN IF chk.raised THEN Raised(<<>>, <<>>, chk)
       ELSE IF ~o.r1.ok THEN Raised(<<>>, <<c>>, RespError(o.r1))
       ELSE Ended(<<>>, <<c>>,
                  _ok("model_catalog", action, Dict(o.r1.obj),
                      [compartment_id |-> p.compartment_id]))

data_science_model_catalog(action, p, o) ==
    CASE action = "count"                  -> model_catalog_count(action, p, o)
      [] action = "list_models"            -> model_catalog_list_models(action, p, o)
      [] action = "download"               -> model_catalog_download(action, p, o)
      [] action = "list_version_sets"      -> model_catalog_list_version_sets(action, p, o)
      [] action = "version_set_attributes" -> model_catalog_version_set_attributes(action, p, o)
      [] OTHER                             -> Raised(<<>>, <<>>, Unsupported(action))

(***************************************************************************)
(* 4) data_science_jobs                                                    *)
(***************************************************************************)
jobs_list(action, p, o) ==
    LET chk == _require(p.compartment_id, "compartment_id", action)
        c   == Call("DataScienceJob.list_jobs",
                    [compartment_id |-> p.compartment_id], o.r1)
    IN IF chk.raised THEN Raised(<<>>, <<>>, chk)
       ELSE IF ~o.r1.ok THEN Raised(<<>>, <<c>>, RespError(o.r1))
       ELSE Ended(<<>>, <<c>>,
                  _ok("jobs", action,
                      List([i \in 1..Len(o.r1.data) |->
                               [job_id |-> o.r1.data[i].id,
                                job_name |-> o.r1.data[i].name]]),
                      [compartment_id |-> p.compartment_id]))

jobs_details(action, p, o) ==
    LET chk == _require(p.job_id, "job_id", action)
        c   == Call("Job.from_datascience_job", [job_id |-> p.job_id], o.r1)
    IN IF chk.raised THEN Raised(<<>>, <<>>, chk)
       ELSE IF ~o.r1.ok THEN Raised(<<>>, <<c>>, RespError(o.r1))
       ELSE Ended(<<>>, <<c>>, _ok("jobs", action, Dict(o.r1.obj), NoExtra))

jobs_delete(action, p, o) ==
    LET chk == _require(p.job_id, "job_id", action)
        c1  == Call("Job.from_datascience_job", [job_id |-> p.job_id], o.r1)
        c2  == Call("Job.delete", [job_id |-> p.job_id], o.r2)
    IN IF chk.raised THEN Raised(<<>>, <<>>, chk)
       ELSE IF ~o.r1.ok THEN Raised(<<>>, <<c1>>, RespError(o.r1))
       ELSE IF ~o.r2.ok THEN Raised(<<>>, <<c1, c2>>, RespError(o.r2))
       ELSE Ended(<<>>, <<c1, c2>>,
                  _ok("jobs", action,
                      Dict([job_id |-> p.job_id, deleted |-> PyBool(TRUE)]), NoExtra))

\* jobs create_script that attaches a shape configuration when either value
\* is given
jobs_create_script_config_on_either(action, p, o) ==
    LET chk   == FirstRaised(<<_require(p.compartment_id, "compartment_id", action),
                               _require(p.project_id, "project_id", action),
                               _require(p.script_path, "script_path", action),
                               _require(p.display_name, "display_name", action)>>)
        infra == [shape_name |-> Lit(p.shape), compartment_id |-> p.compartment_id,
                  project_id |-> p.project_id]
                 @@ (IF p.ocpus.t # "none" \/ p.memory_in_gbs.t # "none"
                     THEN [shape_config_details |->
                              [memory_in_gbs |-> p.memory_in_gbs, ocpus |-> p.ocpus]]
                     ELSE NoExtra)
        c     == Call("Job.create",
                      [name |-> p.display_name, infrastructure |-> infra,
                       source |-> p.script_path], o.r1)
    IN IF chk.raised THEN Raised(<<>>, <<>>, chk)
       ELSE IF ~o.r1.ok THEN Raised(<<>>, <<c>>, RespError(o.r1))
       ELSE Ended(<<>>, <<c>>,
                  _ok("jobs", action, Dict(o.r1.obj),
                      [next_actions |-> <<"data_science_job_runs(action='start')">>]))

jobs_create_script(action, p, o) ==
    LET chk   == FirstRaised(<<_require(p.compartment_id, "compartment_id", action),
                               _require(p.project_id, "project_id", action),
                               _require(p.script_path, "script_path", action),
                               _require(p.display_name, "display_name", action)>>)
        infra == [shape_name |-> Lit(p.shape), compartment_id |-> p.compartment_id,
                  project_id |-> p.project_id]
                 @@ (IF p.ocpus.t # "none" /\ p.memory_in_gbs.t # "none"
                     THEN [shape_config_details |->
                              [memory_in_gbs |-> p.memory_in_gbs, ocpus |-> p.ocpus]]
                     ELSE NoExtra)
        c     == Call("Job.create",
                      [name |-> p.display_name, infrastructure |-> infra,
                       source |-> p.script_path], o.r1)
    IN IF chk.raised THEN Raised(<<>>, <<>>, chk)
       ELSE IF ~o.r1.ok THEN Raised(<<>>, <<c>>, RespError(o.r1))
       ELSE Ended(<<>>, <<c>>,
                  _ok("jobs", action, Dict(o.r1.obj),
                      [next_actions |-> <<"data_science_job_runs(action='start')">>]))

jobs_create_container(action, p, o) ==
    LET chk == FirstRaised(<<_require(p.compartment_id, "compartment_id", action),
                             _require(p.project_id, "project_id", action),
                             _require(p.image, "image", action),
                             _require(p.display_name, "display_name", action)>>)
        c   == Call("Job.create",
                    [name |-> p.display_name,
                     infrastructure |-> [shape_name |-> Lit("VM.Standard2.1"),
                                         compartment_id |-> p.compartment_id,
                                         project_id |-> p.project_id],
                     image |-> p.image], o.r1)
    IN IF chk.raised THEN Raised(<<>>, <<>>, chk)
       ELSE IF ~o.r1.ok THEN Raised(<<>>, <<c>>, RespError(o.r1))
       ELSE Ended(<<>>, <<c>>,
                  _ok("jobs", action, Dict(o.r1.obj),
                      [next_actions |-> <<"data_science_job_runs(action='start')">>]))

\* jobs update that only checks job_id
jobs_update_unchecked(action, p, o) ==
    LET chk == _require(p.job_id, "job_id", action)
        cl  == <<"DataScienceClient">>
        c   == Call("update_job",
                    [job_id |-> p.job_id, display_name |-> p.new_display_name], o.r1)
    IN IF chk.raised THEN Raised(<<>>, <<>>, chk)
       ELSE IF get_client(o).raised THEN Raised(<<>>, <<>>, get_client(o))
       ELSE IF ~o.r1.ok THEN Raised(cl, <<c>>, RespError(o.r1))
       ELSE Ended(cl, <<c>>,
                  _ok("jobs", action,
                      Dict([job_id |-> p.job_id, updated |-> PyBool(TRUE)]), NoExtra))

jobs_update(action, p, o) ==
    LET chk == FirstRaised(<<_require(p.job_id, "job_id", action),
                             _at_least_one(<<<<"new_display_name", p.new_display_name>>>>,
                                           action)>>)
        cl  == <<"DataScienceClient">>
        c   == Call("update_job",
                    [job_id |-> p.job_id, display_name |-> p.new_display_name], o.r1)
    IN IF chk.raised THEN Raised(<<>>, <<>>, chk)
       ELSE IF get_client(o).raised THEN Raised(<<>>, <<>>, get_client(o))
       ELSE IF ~o.r1.ok THEN Raised(cl, <<c>>, RespError(o.r1))
       ELSE Ended(cl, <<c>>,
                  _ok("jobs", action,
                      Dict([job_id |-> p.job_id, updated |-> PyBool(TRUE)]), NoExtra))

data_science_jobs(action, p, o) ==
    CASE action = "list"             -> jobs_list(action, p, o)
      [] action = "details"          -> jobs_details(action, p, o)
      [] action = "delete"           -> jobs_delete(action, p, o)
      [] action = "create_script"    -> jobs_create_script(action, p, o)
      [] action = "create_container" -> jobs_create_container(action, p, o)
      [] action = "update"           -> jobs_update(action, p, o)
      [] OTHER                       -> Raised(<<>>, <<>>, Unsupported(action))

(***************************************************************************)
(* 5) data_science_job_runs                                                *)
(***************************************************************************)
job_runs_start(action, p, o, cl) ==
    LET chk == FirstRaised(<<_require(p.compartment_id, "compartment_id", action),
                             _require(p.project_id, "project_id", action),
                             _require(p.job_id, "job_id", action),
                             _require(p.display_name, "display_name", action)>>)
        c   == Call("create_job_run",
                    [project_id |-> p.project_id, compartment_id |-> p.compartment_id,
                     job_id |-> p.job_id, display_name |-> p.display_name], o.r1)
    IN IF chk.raised THEN Raised(cl, <<>>, chk)
       ELSE IF ~o.r1.ok THEN Raised(cl, <<c>>, RespError(o.r1))
       ELSE Ended(cl, <<c>>,
                  _ok("job_runs", action,
                      Dict([job_run_id |-> o.r1.obj.id, raw |-> o.r1.obj]), NoExtra))

\* job_runs list that passes job_id whether or not one was given
job_runs_list_always_job_id(action, p, o, cl) ==
    LET chk    == _require(p.compartment_id, "compartment_id", action)
        kwargs == [compartment_id |-> p.compartment_id, job_id |-> p.job_id]
                  @@ (IF p.limit.t # "none" THEN [limit |-> p.limit] ELSE NoExtra)
        c      == Call("list_job_runs", kwargs, o.r1)
    IN IF chk.raised THEN Raised(cl, <<>>, chk)
       ELSE IF ~o.r1.ok THEN Raised(cl, <<c>>, RespError(o.r1))
       ELSE Ended(cl, <<c>>, _ok("job_runs", action, List(o.r1.data), NoExtra))

job_runs_list(action, p, o, cl) ==
    LET chk    == _require(p.compartment_id, "compartment_id", action)
        kwargs == [compartment_id |-> p.compartment_id]
                  @@ (IF Truthy(p.job_id) THEN [job_id |-> p.job_id] ELSE NoExtra)
                  @@ (IF p.limit.t # "none" THEN [limit |-> p.limit] ELSE NoExtra)
        c      == Call("list_job_runs", kwargs, o.r1)
    IN IF chk.raised THEN Raised(cl, <<>>, chk)
       ELSE IF ~o.r1.ok THEN Raised(cl, <<c>>, RespError(o.r1))
       ELSE Ended(cl, <<c>>, _ok("job_runs", action, List(o.r1.data), NoExtra))

\* the listing of status and cancel asked for oldest first
LatestJobRunArgsAscending(p) ==
    [compartment_id |-> p.compartment_id, job_id |-> p.job_id,
     sort_by |-> Lit("timeCreated"), sort_order |-> Lit("ASC"), limit |-> PyInt(1)]

\* the listing both status and cancel use to find the most recent run
LatestJobRunArgs(p) ==
    [compartment_id |-> p.compartment_id, job_id |-> p.job_id,
     sort_by |-> Lit("timeCreated"), sort_order |-> Lit("DESC"), limit |-> PyInt(1)]

\* job_runs status that checks compartment_id and job_id before it looks at
\* job_run_id
job_runs_status_checks_first(action, p, o, cl) ==
    LET g   == Call("get_job_run", [job_run_id |-> p.job_run_id], o.r1)
        chk == FirstRaised(<<_require(p.compartment_id, "compartment_id", action),
                             _require(p.job_id, "job_id", action)>>)
        l   == Call("list_job_runs", LatestJobRunArgs(p), o.r1)
    IN IF chk.raised THEN Raised(cl, <<>>, chk)
       ELSE IF Truthy(p.job_run_id)
       THEN IF ~o.r1.ok THEN Raised(cl, <<g>>, RespError(o.r1))
            ELSE Ended(cl, <<g>>, _ok("job_runs", action, Dict(o.r1.obj), NoExtra))
       ELSE IF ~o.r1.ok THEN Raised(cl, <<l>>, RespError(o.r1))
       ELSE IF o.r1.data = <<>>
       THEN Ended(cl, <<l>>,
                  _ok("job_runs", action, None, [message |-> "No job runs found."]))
       ELSE Ended(cl, <<l>>, _ok("job_runs", action, Dict(o.r1.data[1]), NoExtra))

job_runs_status(action, p, o, cl) ==
    LET g   == Call("get_job_run", [job_run_id |-> p.job_run_id], o.r1)
        chk == FirstRaised(<<_require(p.compartment_id, "compartment_id", action),
                             _require(p.job_id, "job_id", action)>>)
        l   == Call("list_job_runs", LatestJobRunArgs(p), o.r1)
    IN IF Truthy(p.job_run_id)
       THEN IF ~o.r1.ok THEN Raised(cl, <<g>>, RespError(o.r1))
            ELSE Ended(cl, <<g>>, _ok("job_runs", action, Dict(o.r1.obj), NoExtra))
       ELSE IF chk.raised THEN Raised(cl, <<>>, chk)
       ELSE IF ~o.r1.ok THEN Raised(cl, <<l>>, RespError(o.r1))
       ELSE IF o.r1.data = <<>>
       THEN Ended(cl, <<l>>,
                  _ok("job_runs", action, None, [message |-> "No job runs found."]))
       ELSE Ended(cl, <<l>>, _ok("job_runs", action, Dict(o.r1.data[1]), NoExtra))

\* job_runs cancel that treats an empty listing as an error
job_runs_cancel_empty_raises(action, p, o, cl) ==
    LET chk    == FirstRaised(<<_require(p.compartment_id, "compartment_id", action),
                                _require(p.job_id, "job_id", action)>>)
        l      == Call("list_job_runs", LatestJobRunArgs(p), o.r1)
        fin(cs, id, r) ==
            LET c == Call("cancel_job_run", [job_run_id |-> id], r)
            IN IF ~r.ok THEN Raised(cl, cs \o <<c>>, RespError(r))
               ELSE Ended(cl, cs \o <<c>>,
                          _ok("job_runs", action,
                              Dict([job_run_id |-> id, cancel_requested |-> PyBool(TRUE)]),
                              NoExtra))
    IN IF ~Truthy(p.job_run_id)
       THEN IF chk.raised THEN Raised(cl, <<>>, chk)
            ELSE IF ~o.r1.ok THEN Raised(cl, <<l>>, RespError(o.r1))
            ELSE IF o.r1.data = <<>>
            THEN Raised(cl, <<l>>,
                        Raise("ValueError", "No job runs found to cancel.", "provider"))
            ELSE fin(<<l>>, o.r1.data[1].id, o.r2)
       ELSE fin(<<>>, p.job_run_id, o.r1)

\* job_runs cancel that takes the last run of the listing, resp.data[-1]
job_runs_cancel_last(action, p, o, cl) ==
    LET chk    == FirstRaised(<<_require(p.compartment_id, "compartment_id", action),
                                _require(p.job_id, "job_id", action)>>)
        l      == Call("list_job_runs", LatestJobRunArgs(p), o.r1)
        fin(cs, id, r) ==
            LET c == Call("cancel_job_run", [job_run_id |-> id], r)
            IN IF ~r.ok THEN Raised(cl, cs \o <<c>>, RespError(r))
               ELSE Ended(cl, cs \o <<c>>,
                          _ok("job_runs", action,
                              Dict([job_run_id |-> id, cancel_requested |-> PyBool(TRUE)]),
                              NoExtra))
    IN IF ~Truthy(p.job_run_id)
       THEN IF chk.raised THEN Raised(cl, <<>>, chk)
            ELSE IF ~o.r1.ok THEN Raised(cl, <<l>>, RespError(o.r1))
            ELSE IF o.r1.data = <<>>
            THEN Ended(cl, <<l>>,
                       _ok("job_runs", action, None,
                           [message |-> "No job runs found to cancel."]))
            ELSE fin(<<l>>, o.r1.data[Len(o.r1.data)].id, o.r2)
       ELSE fin(<<>>, p.job_run_id, o.r1)

job_runs_cancel(action, p, o, cl) ==
    LET chk    == FirstRaised(<<_require(p.compartment_id, "compartment_id", action),
                                _require(p.job_id, "job_id", action)>>)
        l      == Call("list_job_runs", LatestJobRunArgs(p), o.r1)
        \* cancel_job_run and the payload, for the run identifier arrived at
        fin(cs, id, r) ==
            LET c == Call("cancel_job_run", [job_run_id |-> id], r)
            IN IF ~r.ok THEN Raised(cl, cs \o <<c>>, RespError(r))
               ELSE Ended(cl, cs \o <<c>>,
                          _ok("job_runs", action,
                              Dict([job_run_id |-> id, cancel_requested |-> PyBool(TRUE)]),
                              NoExtra))
    IN IF ~Truthy(p.job_run_id)
       THEN IF chk.raised THEN Raised(cl, <<>>, chk)
            ELSE IF ~o.r1.ok THEN Raised(cl, <<l>>, RespError(o.r1))
            ELSE IF o.r1.data = <<>>
            THEN Ended(cl, <<l>>,
                       _ok("job_runs", action, None,
                           [message |-> "No job runs found to cancel."]))
            ELSE fin(<<l>>, o.r1.data[1].id, o.r2)
       ELSE fin(<<>>, p.job_run_id, o.r1)

data_science_job_runs(action, p, o) ==
    IF get_client(o).raised THEN Raised(<<>>, <<>>, get_client(o))
    ELSE LET cl == <<"DataScienceClient">>
         IN CASE action = "start"  -> job_runs_start(action, p, o, cl)
              [] action = "list"   -> job_runs_list(action, p, o, cl)
              [] action = "status" -> job_runs_status(action, p, o, cl)
              [] action = "cancel" -> job_runs_cancel(action, p, o, cl)
              [] OTHER             -> Raised(cl, <<>>, Unsupported(action))

(***************************************************************************)
(* 6) data_science_notebook_sessions                                       *)
(***************************************************************************)
flex_shapes == {"VM.Standard.E5.Flex", "VM.Standard.E4.Flex"}

notebook_sessions_list(action, p, o, cl) ==
    LET chk == _require(p.compartment_id, "compartment_id", action)
        c   == Call("list_notebook_sessions",
                    [compartment_id |-> p.compartment_id], o.r1)
    IN IF chk.raised THEN Raised(cl, <<>>, chk)
       ELSE IF ~o.r1.ok THEN Raised(cl, <<c>>, RespError(o.r1))
       ELSE Ended(cl, <<c>>,
                  _ok("notebook_sessions", action,
                      List([i \in 1..Len(o.r1.data) |->
                               [id |-> o.r1.data[i].id, name |-> o.r1.data[i].name]]),
                      [compartment_id |-> p.compartment_id]))

notebook_sessions_create(action, p, o, cl) ==
    LET chk == FirstRaised(<<_require(p.compartment_id, "compartment_id", action),
                             _require(p.project_id, "project_id", action),
                             _require(p.display_name, "display_name", action),
                             IF p.shape \in flex_shapes
                                /\ (p.ocpus.t = "none" \/ p.memory_in_gbs.t = "none")
                             THEN Raise("ValueError",
                                        "For flexible shapes you must provide both ocpus and memory_in_gbs.",
                                        "validation")
                             ELSE Returned>>)
        cfg == [shape |-> Lit(p.shape)]
               @@ (IF Truthy(p.subnet_id) THEN [subnet_id |-> p.subnet_id] ELSE NoExtra)
               @@ (IF p.ocpus.t # "none" /\ p.memory_in_gbs.t # "none"
                   THEN [notebook_session_shape_config_details |->
                            [ocpus |-> p.ocpus, memory_in_gbs |-> p.memory_in_gbs]]
                   ELSE NoExtra)
        c   == Call("create_notebook_session",
                    [display_name |-> p.display_name, project_id |-> p.project_id,
                     compartment_id |-> p.compartment_id,
                     notebook_session_config_details |-> cfg], o.r1)
    IN IF chk.raised THEN Raised(cl, <<>>, chk)
       ELSE IF ~o.r1.ok THEN Raised(cl, <<c>>, RespError(o.r1))
       ELSE Ended(cl, <<c>>,
                  _ok("notebook_sessions", action,
                      Dict([id |-> o.r1.obj.id, display_name |-> o.r1.obj.name]),
                      [next_actions |-> <<"data_science_notebook_sessions(action='activate')">>]))

\* notebook_sessions activate that requests the activation a second time in
\* place of the session lookup
notebook_sessions_activate_twice(action, p, o, cl) ==
    LET chk == FirstRaised(<<_require(p.compartment_id, "compartment_id", action),
                             _require(p.notebook_session_id, "notebook_session_id", action)>>)
        c1  == Call("activate_notebook_session",
                    [notebook_session_id |-> p.notebook_session_id], o.r1)
        c2  == Call("activate_notebook_session",
                    [notebook_session_id |-> p.notebook_session_id], o.r2)
    IN IF chk.raised THEN Raised(cl, <<>>, chk)
       ELSE IF ~o.r1.ok THEN Raised(cl, <<c1>>, RespError(o.r1))
       ELSE IF ~o.r2.ok THEN Raised(cl, <<c1, c2>>, RespError(o.r2))
       ELSE Ended(cl, <<c1, c2>>,
                  _ok("notebook_sessions", action,
                      Dict([notebook_session_id |-> p.notebook_session_id,
                            message |-> "Notebook session activating."]),
                      NoExtra))

\* notebook_sessions activate that looks the session up before it requests
\* the activation
notebook_sessions_activate_lookup_first(action, p, o, cl) ==
    LET chk == FirstRaised(<<_require(p.compartment_id, "compartment_id", action),
                             _require(p.notebook_session_id, "notebook_session_id", action)>>)
        c1  == Call("get_notebook_session",
                    [notebook_session_id |-> p.notebook_session_id], o.r2)
        c2  == Call("activate_notebook_session",
                    [notebook_session_id |-> p.notebook_session_id], o.r1)
    IN IF chk.raised THEN Raised(cl, <<>>, chk)
       ELSE IF ~o.r2.ok THEN Raised(cl, <<c1>>, RespError(o.r2))
       ELSE IF ~o.r1.ok THEN Raised(cl, <<c1, c2>>, RespError(o.r1))
       ELSE Ended(cl, <<c1, c2>>,
                  _ok("notebook_sessions", action,
                      Dict([notebook_session_id |-> p.notebook_session_id,
                            message |-> "Notebook session activating."]),
                      NoExtra))

notebook_sessions_activate(action, p, o, cl) ==
    LET chk == FirstRaised(<<_require(p.compartment_id, "compartment_id", action),
                             _require(p.notebook_session_id, "notebook_session_id", action)>>)
        c1  == Call("activate_notebook_session",
                    [notebook_session_id |-> p.notebook_session_id], o.r1)
        c2  == Call("get_notebook_session",
                    [notebook_session_id |-> p.notebook_session_id], o.r2)
    IN IF chk.raised THEN Raised(cl, <<>>, chk)
       ELSE IF ~o.r1.ok THEN Raised(cl, <<c1>>, RespError(o.r1))
       ELSE IF ~o.r2.ok THEN Raised(cl, <<c1, c2>>, RespError(o.r2))
       ELSE Ended(cl, <<c1, c2>>,
                  _ok("notebook_sessions", action,
                      Dict([notebook_session_id |-> p.notebook_session_id,
                            message |-> "Notebook session activating."]),
                      NoExtra))

notebook_sessions_stop(action, p, o, cl) ==
    LET chk == _require(p.notebook_session_id, "notebook_session_id", action)
        c   == Call("deactivate_notebook_session",
                    [notebook_session_id |-> p.notebook_session_id], o.r1)
    IN IF chk.raised THEN Raised(cl, <<>>, chk)
       ELSE IF ~o.r1.ok THEN Raised(cl, <<c>>, RespError(o.r1))
       ELSE Ended(cl, <<c>>,
                  _ok("notebook_sessions", action,
                      Dict([notebook_session_id |-> p.notebook_session_id,
                            stopped |-> PyBool(TRUE)]),
                      NoExtra))

notebook_sessions_delete(action, p, o, cl) ==
    LET chk == _require(p.notebook_session_id, "notebook_session_id", action)
        c   == Call("delete_notebook_session",
                    [notebook_session_id |-> p.notebook_session_id], o.r1)
    IN IF chk.raised THEN Raised(cl, <<>>, chk)
       ELSE IF ~o.r1.ok THEN Raised(cl, <<c>>, RespError(o.r1))
       ELSE Ended(cl, <<c>>,
                  _ok("notebook_sessions", action,
                      Dict([notebook_session_id |-> p.notebook_session_id,
                            deleted |-> PyBool(TRUE)]),
                      NoExtra))

data_science_notebook_sessions(action, p, o) ==
    IF get_client(o).raised THEN Raised(<<>>, <<>>, get_client(o))
    ELSE LET cl == <<"DataScienceClient">>
         IN CASE action = "list"     -> notebook_sessions_list(action, p, o, cl)
              [] action = "create"   -> notebook_sessions_create(action, p, o, cl)
              [] action = "activate" -> notebook_sessions_activate(action, p, o, cl)
              [] action = "stop"     -> notebook_sessions_stop(action, p, o, cl)
              [] action = "delete"   -> notebook_sessions_delete(action, p, o, cl)
              [] OTHER               -> Raised(cl, <<>>, Unsupported(action))

(***************************************************************************)
(* 7) data_science_pipelines                                               *)
(***************************************************************************)
pipelines_list(action, p, o, cl) ==
    LET chk  == _require(p.compartment_id, "compartment_id", action)
        c    == Call("list_pipelines", [compartment_id |-> p.compartment_id], o.r1)
        rows == [i \in 1..Len(o.r1.data) |->
                    [id |-> o.r1.data[i].id, name |-> o.r1.data[i].name]]
    IN IF chk.raised THEN Raised(cl, <<>>, chk)
       ELSE IF ~o.r1.ok THEN Raised(cl, <<c>>, RespError(o.r1))
       ELSE Ended(cl, <<c>>,
                  _ok("pipelines", action,
                      List(IF p.limit.t # "none" THEN Slice(rows, p.limit) ELSE rows),
                      [compartment_id |-> p.compartment_id]))

pipelines_details(action, p, o, cl) ==
    LET chk == _require(p.pipeline_id, "pipeline_id", action)
        c   == Call("get_pipeline", [pipeline_id |-> p.pipeline_id], o.r1)
    IN IF chk.raised THEN Raised(cl, <<>>, chk)
       ELSE IF ~o.r1.ok THEN Raised(cl, <<c>>, RespError(o.r1))
       ELSE Ended(cl, <<c>>, _ok("pipelines", action, Dict(o.r1.obj), NoExtra))

pipelines_delete(action, p, o, cl) ==
    LET chk == _require(p.pipeline_id, "pipeline_id", action)
        c   == Call("delete_pipeline", [pipeline_id |-> p.pipeline_id], o.r1)
    IN IF chk.raised THEN Raised(cl, <<>>, chk)
       ELSE IF ~o.r1.ok THEN Raised(cl, <<c>>, RespError(o.r1))
       ELSE Ended(cl, <<c>>,
                  _ok("pipelines", action,
                      Dict([pipeline_id |-> p.pipeline_id,
                            delete_requested |-> PyBool(TRUE)]),
                      NoExtra))

data_science_pipelines(action, p, o) ==
    IF get_client(o).raised THEN Raised(<<>>, <<>>, get_client(o))
    ELSE LET cl == <<"DataScienceClient">>
         IN CASE action = "list"    -> pipelines_list(action, p, o, cl)
              [] action = "details" -> pipelines_details(action, p, o, cl)
              [] action = "delete"  -> pipelines_delete(action, p, o, cl)
              [] OTHER              -> Raised(cl, <<>>, Unsupported(action))

(***************************************************************************)
(* 8) data_science_pipeline_runs                                           *)
(***************************************************************************)
pipeline_runs_start(action, p, o, cl) ==
    LET c == Call("create_pipeline_run",
                  [compartment_id |-> p.compartment_id, pipeline_id |-> p.pipeline_id,
                   display_name |-> p.display_name], o.r1)
    IN IF ~o.r1.ok THEN Raised(cl, <<c>>, RespError(o.r1))
       ELSE Ended(cl, <<c>>,
                  _ok("pipeline_runs", action,
                      Dict([pipeline_run_id |-> o.r1.obj.id, raw |-> o.r1.obj]),
                      NoExtra))

\* pipeline_runs list that asks for every run and truncates what it got
pipeline_runs_list_truncating(action, p, o, cl) ==
    LET kwargs == [compartment_id |-> p.compartment_id, pipeline_id |-> p.pipeline_id]
        c      == Call("list_pipeline_runs", kwargs, o.r1)
    IN IF ~o.r1.ok THEN Raised(cl, <<c>>, RespError(o.r1))
       ELSE Ended(cl, <<c>>,
                  _ok("pipeline_runs", action,
                      List(IF p.limit.t # "none" THEN Slice(o.r1.data, p.limit)
                           ELSE o.r1.data),
                      NoExtra))

pipeline_runs_list(action, p, o, cl) ==
    LET kwargs == [compartment_id |-> p.compartment_id, pipeline_id |-> p.pipeline_id]
                  @@ (IF p.limit.t # "none" THEN [limit |-> p.limit] ELSE NoExtra)
        c      == Call("list_pipeline_runs", kwargs, o.r1)
    IN IF ~o.r1.ok THEN Raised(cl, <<c>>, RespError(o.r1))
       ELSE Ended(cl, <<c>>, _ok("pipeline_runs", action, List(o.r1.data), NoExtra))

pipeline_runs_status(action, p, o, cl) ==
    LET g == Call("get_pipeline_run", [pipeline_run_id |-> p.pipeline_run_id], o.r1)
        l == Call("list_pipeline_runs",
                  [compartment_id |-> p.compartment_id, pipeline_id |-> p.pipeline_id,
                   sort_by |-> Lit("timeAccepted"), sort_order |-> Lit("DESC"),
                   limit |-> PyInt(1)], o.r1)
    IN IF Truthy(p.pipeline_run_id)
       THEN IF ~o.r1.ok THEN Raised(cl, <<g>>, RespError(o.r1))
            ELSE Ended(cl, <<g>>, _ok("pipeline_runs", action, Dict(o.r1.obj), NoExtra))
       ELSE IF ~o.r1.ok THEN Raised(cl, <<l>>, RespError(o.r1))
       ELSE IF o.r1.data = <<>>
       THEN Ended(cl, <<l>>,
                  _ok("pipeline_runs", action, None,
                      [message |-> "No pipeline runs found."]))
       ELSE Ended(cl, <<l>>, _ok("pipeline_runs", action, Dict(o.r1.data[1]), NoExtra))

\* pipeline_runs that obtains the client before it checks its parameters
data_science_pipeline_runs_client_first(action, p, o) ==
    LET chk == FirstRaised(<<_require(p.compartment_id, "compartment_id", action),
                             _require(p.pipeline_id, "pipeline_id", action)>>)
        cl  == <<"DataScienceClient">>
    IN IF get_client(o).raised THEN Raised(<<>>, <<>>, get_client(o))
       ELSE IF chk.raised THEN Raised(cl, <<>>, chk)
       ELSE CASE action = "start"  -> pipeline_runs_start(action, p, o, cl)
              [] action = "list"   -> pipeline_runs_list(action, p, o, cl)
              [] action = "status" -> pipeline_runs_status(action, p, o, cl)
              [] OTHER             -> Raised(cl, <<>>, Unsupported(action))

data_science_pipeline_runs(action, p, o) ==
    LET chk == FirstRaised(<<_require(p.compartment_id, "compartment_id", action),
                             _require(p.pipeline_id, "pipeline_id", action)>>)
        cl  == <<"DataScienceClient">>
    IN IF chk.raised THEN Raised(<<>>, <<>>, chk)
       ELSE IF get_client(o).raised THEN Raised(<<>>, <<>>, get_client(o))
       ELSE CASE action = "start"  -> pipeline_runs_start(action, p, o, cl)
              [] action = "list"   -> pipeline_runs_list(action, p, o, cl)
              [] action = "status" -> pipeline_runs_status(action, p, o, cl)
              [] OTHER             -> Raised(cl, <<>>, Unsupported(action))

(***************************************************************************)
(* 9) data_science_model_deployments                                       *)
(***************************************************************************)
model_deployments_list(action, p, o, cl) ==
    LET chk  == _require(p.compartment_id, "compartment_id", action)
        c    == Call("list_model_deployments",
                     [compartment_id |-> p.compartment_id], o.r1)
        rows == [i \in 1..Len(o.r1.data) |->
                    [id |-> o.r1.data[i].id, name |-> o.r1.data[i].name]]
    IN IF chk.raised THEN Raised(cl, <<>>, chk)
       ELSE IF ~o.r1.ok THEN Raised(cl, <<c>>, RespError(o.r1))
       ELSE Ended(cl, <<c>>,
                  _ok("model_deployments", action,
                      List(IF p.limit.t # "none" THEN Slice(rows, p.limit) ELSE rows),
                      [compartment_id |-> p.compartment_id]))

model_deployments_deploy(action, p, o, cl) ==
    LET chk    == FirstRaised(<<_require(p.compartment_id, "compartment_id", action),
                                _require(p.project_id, "project_id", action),
                                _require(p.model_id, "model_id", action),
                                _require(p.display_name, "display_name", action)>>)
        kwargs == [deployment_instance_shape |-> Lit(p.shape)]
                  @@ (IF Truthy(p.subnet_id) THEN [subnet_id |-> p.subnet_id] ELSE NoExtra)
                  @@ (IF p.ocpus.t # "none" THEN [deployment_ocpus |-> p.ocpus] ELSE NoExtra)
                  @@ (IF p.memory_in_gbs.t # "none"
                      THEN [deployment_memory_in_gbs |-> p.memory_in_gbs] ELSE NoExtra)
        c1     == Call("GenericModel.from_id", [model_id |-> p.model_id], o.r1)
        c2     == Call("GenericModel.deploy",
                       [display_name |-> p.display_name, project_id |-> p.project_id,
                        compartment_id |-> p.compartment_id] @@ kwargs, o.r2)
    IN IF chk.raised THEN Raised(cl, <<>>, chk)
       ELSE IF ~o.r1.ok THEN Raised(cl, <<c1>>, RespError(o.r1))
       ELSE IF ~o.r2.ok THEN Raised(cl, <<c1, c2>>, RespError(o.r2))
       ELSE Ended(cl, <<c1, c2>>,
                  _ok("model_deployments", action,
                      Dict([deployment_id |-> o.r2.obj.id]),
                      [next_actions |-> <<"data_science_model_deployments(action='activate')">>]))

model_deployments_activate(action, p, o, cl) ==
    LET chk == _require(p.deployment_id, "deployment_id", action)
        c   == Call("activate_model_deployment", [model_deployment_id |-> p.deployment_id], o.r1)
    IN IF chk.raised THEN Raised(cl, <<>>, chk)
       ELSE IF ~o.r1.ok THEN Raised(cl, <<c>>, RespError(o.r1))
       ELSE Ended(cl, <<c>>,
                  _ok("model_deployments", action,
                      Dict([deployment_id |-> p.deployment_id,
                            activate_requested |-> PyBool(TRUE)]),
                      NoExtra))

model_deployments_deactivate(action, p, o, cl) ==
    LET chk == _require(p.deployment_id, "deployment_id", action)
        c   == Call("deactivate_model_deployment", [model_deployment_id |-> p.deployment_id], o.r1)
    IN IF chk.raised THEN Raised(cl, <<>>, chk)
       ELSE IF ~o.r1.ok THEN Raised(cl, <<c>>, RespError(o.r1))
       ELSE Ended(cl, <<c>>,
                  _ok("model_deployments", action,
                      Dict([deployment_id |-> p.deployment_id,
                            deactivate_requested |-> PyBool(TRUE)]),
                      NoExtra))

model_deployments_delete(action, p, o, cl) ==
    LET chk == _require(p.deployment_id, "deployment_id", action)
        c   == Call("delete_model_deployment", [model_deployment_id |-> p.deployment_id], o.r1)
    IN IF chk.raised THEN Raised(cl, <<>>, chk)
       ELSE IF ~o.r1.ok THEN Raised(cl, <<c>>, RespError(o.r1))
       ELSE Ended(cl, <<c>>,
                  _ok("model_deployments", action,
                      Dict([deployment_id |-> p.deployment_id,
                            delete_requested |-> PyBool(TRUE)]),
                      NoExtra))

data_science_model_deployments(action, p, o) ==
    IF get_client(o).raised THEN Raised(<<>>, <<>>, get_client(o))
    ELSE LET cl == <<"DataScienceClient">>
         IN CASE action = "list"       -> model_deployments_list(action, p, o, cl)
              [] action = "deploy"     -> model_deployments_deploy(action, p, o, cl)
              [] action = "activate"   -> model_deployments_activate(action, p, o, cl)
              [] action = "deactivate" -> model_deployments_deactivate(action, p, o, cl)
              [] action = "delete"     -> model_deployments_delete(action, p, o, cl)
              [] OTHER                 -> Raised(cl, <<>>, Unsupported(action))

(***************************************************************************)
(* Tool invocations.  The parameters an action reads range over absent,    *)
(* empty, whitespace-only and non-blank values; the parameters it does not *)
(* read are left absent.  An action outside the tool's set ("bogus") is    *)
(* tried with every parameter absent or given.                             *)
(***************************************************************************)
IdVals    == {None, PyStr(<<>>), PyStr(<<" ">>), PyStr(<<"a">>)}
OptVals   == {None, PyStr(<<"a">>)}
LimitVals == {None, PyInt(1), PyInt(2)}
NumVals   == {None, PyInt(1)}
Shapes    == {"VM.Standard2.1", "VM.Standard.E3.Flex", "VM.Standard.E4.Flex",
              "VM.Standard.E5.Flex"}

Pick(a, rd, name, S) ==
    IF a = "bogus" THEN OptVals ELSE IF name \in rd THEN S ELSE {None}
PickNum(rd, name, S) == IF name \in rd THEN S ELSE {None}
PickShape(rd, default) == IF "shape" \in rd THEN Shapes ELSE {default}

Oracles(R1, R2, F) ==
    [cfg : BOOLEAN, ctor : BOOLEAN, r1 : R1, r2 : R2, files : F]

Invoke(tool, a, p, h) ==
    /\ req' = [tool |-> tool, action |-> a, params |-> p]
    /\ clients' = h.clients
    /\ calls' = h.calls
    /\ out' = h.out
    /\ UNCHANGED <<helper, inv, runs>>

\* a direct call of get_data_science_client(), and of the get_oci_config()
\* inside it, with the configuration file loading or not and the client
\* constructor accepting the configuration or not
CallGetClient ==
    /\ Idle
    /\ \E o \in Oracles(Unused, Unused, {0}) :
        /\ helper' = [fn |-> "get_data_science_client", loads |-> o.cfg,
                      constructs |-> o.ctor, config |-> get_oci_config(o),
                      out |-> get_client(o)]
        /\ UNCHANGED <<req, clients, calls, out, inv, runs>>

Compartments ==
    /\ Idle
    /\ \E a \in {"list", "bogus"}, o \in Oracles(ListResps, Unused, {0}) :
        Invoke("oci_ds_compartments", a, NoExtra, oci_ds_compartments(a, NoExtra, o))

ProjectsReads(a) ==
    CASE a = "count"  -> {"compartment_id"}
      [] a = "list"   -> {"compartment_id", "limit"}
      [] a = "create" -> {"compartment_id", "project_name", "project_description"}
      [] a = "update" -> {"compartment_id", "project_id", "new_name", "new_description"}
      [] a = "delete" -> {"compartment_id", "project_id"}
      [] OTHER        -> {}

ProjectsParams(a) ==
    LET rd == ProjectsReads(a)
    IN [compartment_id : Pick(a, rd, "compartment_id", IdVals),
        project_id : Pick(a, rd, "project_id", IdVals),
        project_name : Pick(a, rd, "project_name", IdVals),
        project_description : Pick(a, rd, "project_description", OptVals),
        new_name : Pick(a, rd, "new_name", IdVals),
        new_description : Pick(a, rd, "new_description", IdVals),
        limit : PickNum(rd, "limit", LimitVals)]

ProjectsOracles(a) ==
    CASE a \in {"count", "list"}    -> Oracles(ListResps, Unused, {0})
      [] a = "create"               -> Oracles(ObjResps, Unused, {0})
      [] a \in {"update", "delete"} -> Oracles(VoidResps, Unused, {0})
      [] OTHER                      -> Oracles(Unused, Unused, {0})

Projects ==
    /\ Idle
    /\ \E a \in {"create", "list", "update", "delete", "count", "bogus"} :
       \E p \in ProjectsParams(a), o \in ProjectsOracles(a) :
        Invoke("data_science_projects", a, p, data_science_projects(a, p, o))

ModelCatalogReads(a) ==
    CASE a = "count"                  -> {"compartment_id"}
      [] a = "list_models"            -> {"compartment_id", "project_id", "limit"}
      [] a = "download"               -> {"compartment_id", "model_id", "target_dir"}
      [] a = "list_version_sets"      -> {"compartment_id", "limit"}
      [] a = "version_set_attributes" -> {"compartment_id", "model_version_set_id"}
      [] OTHER                        -> {}

ModelCatalogParams(a) ==
    LET rd == ModelCatalogReads(a)
    IN [compartment_id : Pick(a, rd, "compartment_id", IdVals),
        project_id : Pick(a, rd, "project_id", IdVals),
        model_id : Pick(a, rd, "model_id", IdVals),
        target_dir : Pick(a, rd, "target_dir", IdVals),
        model_version_set_id : Pick(a, rd, "model_version_set_id", IdVals),
        limit : PickNum(rd, "limit", LimitVals)]

ModelCatalogOracles(a) ==
    CASE a \in {"count", "list_version_sets"} -> Oracles(ListResps, Unused, {0})
      [] a = "list_models"                    -> Oracles(ListResps, ListResps, {0})
      [] a = "download"                       -> Oracles(ObjResps, VoidResps, {0, 1})
      [] a = "version_set_attributes"         -> Oracles(ObjResps, Unused, {0})
      [] OTHER                                -> Oracles(Unused, Unused, {0})

ModelCatalog ==
    /\ Idle
    /\ \E a \in {"list_models", "download", "count", "list_version_sets",
                 "version_set_attributes", "bogus"} :
       \E p \in ModelCatalogParams(a), o \in ModelCatalogOracles(a) :
        Invoke("data_science_model_catalog", a, p, data_science_model_catalog(a, p, o))

JobsReads(a) ==
    CASE a = "list"             -> {"compartment_id"}
      [] a \in {"details", "delete"} -> {"job_id"}
      [] a = "create_script"    -> {"compartment_id", "project_id", "script_path",
                                    "display_name", "ocpus", "memory_in_gbs"}
      [] a = "create_container" -> {"compartment_id", "project_id", "image", "display_name"}
      [] a = "update"           -> {"job_id", "new_display_name"}
      [] OTHER                  -> {}

JobsParams(a) ==
    LET rd == JobsReads(a)
    IN [compartment_id : Pick(a, rd, "compartment_id", IdVals),
        project_id : Pick(a, rd, "project_id", IdVals),
        job_id : Pick(a, rd, "job_id", IdVals),
        display_name : Pick(a, rd, "display_name", IdVals),
        script_path : Pick(a, rd, "script_path", IdVals),
        image : Pick(a, rd, "image", IdVals),
        new_display_name : Pick(a, rd, "new_display_name", IdVals),
        shape : {"VM.Standard2.2"},
        ocpus : PickNum(rd, "ocpus", NumVals),
        memory_in_gbs : PickNum(rd, "memory_in_gbs", NumVals)]

JobsOracles(a) ==
    CASE a = "list"    -> Oracles(ListResps, Unused, {0})
      [] a = "delete"  -> Oracles(ObjResps, VoidResps, {0})
      [] a = "update"  -> Oracles(VoidResps, Unused, {0})
      [] a \in {"details", "create_script", "create_container"}
                       -> Oracles(ObjResps, Unused, {0})
      [] OTHER         -> Oracles(Unused, Unused, {0})

Jobs ==
    /\ Idle
    /\ \E a \in {"create_script", "create_container", "list", "details", "update",
                 "delete", "bogus"} :
       \E p \in JobsParams(a), o \in JobsOracles(a) :
        Invoke("data_science_jobs", a, p, data_science_jobs(a, p, o))

JobRunsReads(a) ==
    CASE a = "start" -> {"compartment_id", "project_id", "job_id", "display_name"}
      [] a = "list"  -> {"compartment_id", "job_id", "limit"}
      [] a \in {"status", "cancel"} -> {"compartment_id", "job_id", "job_run_id"}
      [] OTHER       -> {}

JobRunsParams(a) ==
    LET rd == JobRunsReads(a)
    IN [compartment_id : Pick(a, rd, "compartment_id", IdVals),
        project_id : Pick(a, rd, "project_id", IdVals),
        job_id : Pick(a, rd, "job_id", IdVals),
        display_name : Pick(a, rd, "display_name", IdVals),
        job_run_id : Pick(a, rd, "job_run_id", IdVals),
        limit : PickNum(rd, "limit", LimitVals)]

JobRunsOracles(a) ==
    CASE a = "start"  -> Oracles(ObjResps, Unused, {0})
      [] a = "list"   -> Oracles(ListResps, Unused, {0})
      [] a = "status" -> Oracles(ListResps \cup ObjResps, Unused, {0})
      [] a = "cancel" -> Oracles(ListResps, VoidResps, {0})
      [] OTHER        -> Oracles(Unused, Unused, {0})

JobRuns ==
    /\ Idle
    /\ \E a \in {"start", "list", "status", "cancel", "bogus"} :
       \E p \in JobRunsParams(a), o \in JobRunsOracles(a) :
        Invoke("data_science_job_runs", a, p, data_science_job_runs(a, p, o))

NotebookSessionsReads(a) ==
    CASE a = "list"     -> {"compartment_id"}
      [] a = "create"   -> {"compartment_id", "project_id", "display_name", "shape",
                            "subnet_id", "ocpus", "memory_in_gbs"}
      [] a = "activate" -> {"compartment_id", "notebook_session_id"}
      [] a \in {"stop", "delete"} -> {"notebook_session_id"}
      [] OTHER          -> {}

NotebookSessionsParams(a) ==
    LET rd == NotebookSessionsReads(a)
    IN [compartment_id : Pick(a, rd, "compartment_id", IdVals),
        project_id : Pick(a, rd, "project_id", IdVals),
        notebook_session_id : Pick(a, rd, "notebook_session_id", IdVals),
        display_name : Pick(a, rd, "display_name", IdVals),
        subnet_id : Pick(a, rd, "subnet_id", OptVals),
        shape : PickShape(rd, "VM.Standard2.1"),
        ocpus : PickNum(rd, "ocpus", NumVals),
        memory_in_gbs : PickNum(rd, "memory_in_gbs", NumVals)]

NotebookSessionsOracles(a) ==
    CASE a = "list"     -> Oracles(ListResps, Unused, {0})
      [] a = "create"   -> Oracles(ObjResps, Unused, {0})
      [] a = "activate" -> Oracles(VoidResps, ObjResps, {0})
      [] a \in {"stop", "delete"} -> Oracles(VoidResps, Unused, {0})
      [] OTHER          -> Oracles(Unused, Unused, {0})

NotebookSessions ==
    /\ Idle
    /\ \E a \in {"create", "activate", "stop", "delete", "list", "bogus"} :
       \E p \in NotebookSessionsParams(a), o \in NotebookSessionsOracles(a) :
        Invoke("data_science_notebook_sessions", a, p,
               data_science_notebook_sessions(a, p, o))

PipelinesReads(a) ==
    CASE a = "list" -> {"compartment_id", "limit"}
      [] a \in {"details", "delete"} -> {"pipeline_id"}
      [] OTHER      -> {}

PipelinesParams(a) ==
    LET rd == PipelinesReads(a)
    IN [compartment_id : Pick(a, rd, "compartment_id", IdVals),
        pipeline_id : Pick(a, rd, "pipeline_id", IdVals),
        limit : PickNum(rd, "limit", LimitVals)]

PipelinesOracles(a) ==
    CASE a = "list"    -> Oracles(ListResps, Unused, {0})
      [] a = "details" -> Oracles(ObjResps, Unused, {0})
      [] a = "delete"  -> Oracles(VoidResps, Unused, {0})
      [] OTHER         -> Oracles(Unused, Unused, {0})

Pipelines ==
    /\ Idle
    /\ \E a \in {"list", "details", "delete", "bogus"} :
       \E p \in PipelinesParams(a), o \in PipelinesOracles(a) :
        Invoke("data_science_pipelines", a, p, data_science_pipelines(a, p, o))

PipelineRunsReads(a) ==
    CASE a = "start"  -> {"compartment_id", "pipeline_id", "display_name"}
      [] a = "list"   -> {"compartment_id", "pipeline_id", "limit"}
      [] a = "status" -> {"compartment_id", "pipeline_id", "pipeline_run_id"}
      [] OTHER        -> {}

PipelineRunsParams(a) ==
    LET rd == PipelineRunsReads(a)
    IN [compartment_id : Pick(a, rd, "compartment_id", IdVals),
        pipeline_id : Pick(a, rd, "pipeline_id", IdVals),
        display_name : Pick(a, rd, "display_name", OptVals),
        pipeline_run_id : Pick(a, rd, "pipeline_run_id", IdVals),
        limit : PickNum(rd, "limit", LimitVals)]

PipelineRunsOracles(a) ==
    CASE a = "start"  -> Oracles(ObjResps, Unused, {0})
      [] a = "list"   -> Oracles(ListResps, Unused, {0})
      [] a = "status" -> Oracles(ListResps \cup ObjResps, Unused, {0})
      [] OTHER        -> Oracles(Unused, Unused, {0})

PipelineRuns ==
    /\ Idle
    /\ \E a \in {"start", "status", "list", "bogus"} :
       \E p \in PipelineRunsParams(a), o \in PipelineRunsOracles(a) :
        Invoke("data_science_pipeline_runs", a, p, data_science_pipeline_runs(a, p, o))

ModelDeploymentsReads(a) ==
    CASE a = "list"   -> {"compartment_id", "limit"}
      [] a = "deploy" -> {"compartment_id", "project_id", "model_id", "display_name",
                          "subnet_id", "ocpus", "memory_in_gbs"}
      [] a \in {"activate", "deactivate", "delete"} -> {"deployment_id"}
      [] OTHER        -> {}

ModelDeploymentsParams(a) ==
    LET rd == ModelDeploymentsReads(a)
    IN [compartment_id : Pick(a, rd, "compartment_id", IdVals),
        project_id : Pick(a, rd, "project_id", IdVals),
        model_id : Pick(a, rd, "model_id", IdVals),
        display_name : Pick(a, rd, "display_name", IdVals),
        deployment_id : Pick(a, rd, "deployment_id", IdVals),
        subnet_id : Pick(a, rd, "subnet_id", OptVals),
        shape : {"VM.Standard.E2.1"},
        ocpus : PickNum(rd, "ocpus", NumVals),
        memory_in_gbs : PickNum(rd, "memory_in_gbs", NumVals),
        limit : PickNum(rd, "limit", LimitVals)]

ModelDeploymentsOracles(a) ==
    CASE a = "list"   -> Oracles(ListResps, Unused, {0})
      [] a = "deploy" -> Oracles(ObjResps, ObjResps, {0})
      [] a \in {"activate", "deactivate", "delete"} -> Oracles(VoidResps, Unused, {0})
      [] OTHER        -> Oracles(Unused, Unused, {0})

ModelDeployments ==
    /\ Idle
    /\ \E a \in {"deploy", "activate", "deactivate", "delete", "list", "bogus"} :
       \E p \in ModelDeploymentsParams(a), o \in ModelDeploymentsOracles(a) :
        Invoke("data_science_model_deployments", a, p,
               data_science_model_deployments(a, p, o))

\* the response has been handed to the caller; nothing of the invocation is kept
Respond ==
    /\ ~Idle
    /\ req' = NoReq
    /\ clients' = <<>>
    /\ calls' = <<>>
    /\ out' = [kind |-> "none"]
    /\ helper' = NoHelper
    /\ UNCHANGED <<inv, runs>>

Next ==
    \/ CallRequire
    \/ CallAtLeastOne
    \/ CallOk
    \/ CallGetClient
    \/ Compartments
    \/ Projects
    \/ ModelCatalog
    \/ Jobs
    \/ JobRuns
    \/ NotebookSessions
    \/ Pipelines
    \/ PipelineRuns
    \/ ModelDeployments
    \/ Respond

Spec == Init /\ [][Next]_vars

(***************************************************************************)
(* Two invocations of data_science_job_runs served in parallel.  Each has  *)
(* a frame: its arguments, the provider responses it will get, the local   *)
(* job_run_id, and what it has built, invoked and returned so far.  A step *)
(* of one invocation is the code between two points where the other may    *)
(* run: entering, obtaining the client, the checks, each provider call.    *)
(***************************************************************************)
ParActions == {"start", "list", "status", "cancel", "bogus"}

ParParams(a) ==
    [compartment_id : IF a = "bogus" THEN {None} ELSE OptVals,
     project_id     : IF a = "start" THEN {PyStr(<<"a">>)} ELSE {None},
     job_id         : IF a \in {"start", "status", "cancel"} THEN OptVals ELSE {None},
     display_name   : IF a = "start" THEN {PyStr(<<"a">>)} ELSE {None},
     job_run_id     : IF a \in {"status", "cancel"} THEN {None, PyStr(<<"b">>)} ELSE {None},
     limit          : IF a = "list" THEN {None, PyInt(1)} ELSE {None}]

ParOracles(a) ==
    [cfg : BOOLEAN, ctor : {TRUE},
     r1 : IF a = "bogus" THEN Unused
          ELSE {Failed([etype |-> "RuntimeError", msg |-> "boom"]),
                GaveList(<<>>), GaveList(<<Item2, Item1>>)},
     r2 : IF a = "cancel" THEN VoidResps ELSE Unused,
     files : {0}]

\* every invocation keeps job_run_id in one variable shared by all
RunSlotShared(i) == 1

\* the frame holding the job_run_id of invocation i: its own
RunSlot(i) == i

Others == <<req, clients, calls, out, helper, runs>>

Enter(i) ==
    /\ inv[i].pc = "idle"
    /\ \E a \in ParActions : \E p \in ParParams(a), o \in ParOracles(a) :
          inv' = [inv EXCEPT
                    ![i] = [pc |-> "client", action |-> a, p |-> p, o |-> o,
                            job_run_id |-> None, clients |-> <<>>, calls |-> <<>>,
                            out |-> [kind |-> "none"]],
                    ![RunSlot(i)].job_run_id = p.job_run_id]
    /\ UNCHANGED Others

GetClient(i) ==
    /\ inv[i].pc = "client"
    /\ LET g == get_client(inv[i].o)
       IN inv' = [inv EXCEPT
                    ![i].pc = IF g.raised THEN "done" ELSE "check",
                    ![i].clients = IF g.raised THEN <<>> ELSE <<"DataScienceClient">>,
                    ![i].out = IF g.raised THEN Error(g) ELSE @]
    /\ UNCHANGED Others

Check(i) ==
    /\ inv[i].pc = "check"
    /\ LET a   == inv[i].action
           p   == inv[i].p
           id  == inv[RunSlot(i)].job_run_id
           chk == CASE a = "start" ->
                         FirstRaised(<<_require(p.compartment_id, "compartment_id", a),
                                       _require(p.project_id, "project_id", a),
                                       _require(p.job_id, "job_id", a),
                                       _require(p.display_name, "display_name", a)>>)
                    [] a = "list" -> _require(p.compartment_id, "compartment_id", a)
                    [] a \in {"status", "cancel"} ->
                         IF Truthy(id) THEN Returned
                         ELSE FirstRaised(<<_require(p.compartment_id, "compartment_id", a),
                                            _require(p.job_id, "job_id", a)>>)
                    [] OTHER -> Unsupported(a)
       IN inv' = [inv EXCEPT
                    ![i].pc = IF chk.raised THEN "done"
                              ELSE IF a = "cancel" /\ Truthy(id) THEN "cancel"
                              ELSE "call",
                    ![i].out = IF chk.raised THEN Error(chk) ELSE @]
    /\ UNCHANGED Others

FirstCall(i) ==
    /\ inv[i].pc = "call"
    /\ LET a   == inv[i].action
           p   == inv[i].p
           r   == inv[i].o.r1
           id  == inv[RunSlot(i)].job_run_id
           c   == CASE a = "start" ->
                         Call("create_job_run",
                              [project_id |-> p.project_id,
                               compartment_id |-> p.compartment_id,
                               job_id |-> p.job_id, display_name |-> p.display_name], r)
                    [] a = "list" ->
                         Call("list_job_runs",
                              [compartment_id |-> p.compartment_id]
                              @@ (IF Truthy(p.job_id) THEN [job_id |-> p.job_id] ELSE NoExtra)
                              @@ (IF p.limit.t # "none" THEN [limit |-> p.limit] ELSE NoExtra),
                              r)
                    [] a = "status" /\ Truthy(id) ->
                         Call("get_job_run", [job_run_id |-> id], r)
                    [] OTHER -> Call("list_job_runs", LatestJobRunArgs(p), r)
           more == a = "cancel" /\ r.ok /\ r.data # <<>>
           res == IF ~r.ok THEN Error(RespError(r))
                  ELSE CASE a = "start" ->
                              _ok("job_runs", a,
                                  Dict([job_run_id |-> r.obj.id, raw |-> r.obj]), NoExtra)
                         [] a = "list" -> _ok("job_runs", a, List(r.data), NoExtra)
                         [] a = "status" /\ Truthy(id) ->
                              _ok("job_runs", a, Dict(r.obj), NoExtra)
                         [] a = "status" /\ ~Truthy(id) /\ r.data = <<>> ->
                              _ok("job_runs", a, None, [message |-> "No job runs found."])
                         [] a = "status" /\ ~Truthy(id) /\ r.data # <<>> ->
                              _ok("job_runs", a, Dict(r.data[1]), NoExtra)
                         [] a = "cancel" /\ r.data = <<>> ->
                              _ok("job_runs", a, None,
                                  [message |-> "No job runs found to cancel."])
                         [] OTHER -> inv[i].out
       IN inv' = [inv EXCEPT
                    ![i].calls = Append(@, c),
                    ![i].out = res,
                    ![i].pc = IF more THEN "cancel" ELSE "done",
                    ![RunSlot(i)].job_run_id = IF more THEN r.data[1].id ELSE @]
    /\ UNCHANGED Others

CancelCall(i) ==
    /\ inv[i].pc = "cancel"
    /\ LET id == inv[RunSlot(i)].job_run_id
           r  == IF inv[i].calls = <<>> THEN inv[i].o.r1 ELSE inv[i].o.r2
           c  == Call("cancel_job_run", [job_run_id |-> id], r)
       IN inv' = [inv EXCEPT
                    ![i].calls = Append(@, c),
                    ![i].out = IF ~r.ok THEN Error(RespError(r))
                               ELSE _ok("job_runs", inv[i].action,
                                        Dict([job_run_id |-> id,
                                              cancel_requested |-> PyBool(TRUE)]),
                                        NoExtra),
                    ![i].pc = "done"]
    /\ UNCHANGED Others

\* the response is handed to the transport and the frame is dropped
Return(i) ==
    /\ inv[i].pc = "done"
    /\ inv' = [inv EXCEPT ![i] = IdleFrame]
    /\ UNCHANGED Others

NextPar ==
    \/ \E i \in Invocations : Enter(i)
    \/ \E i \in Invocations : GetClient(i)
    \/ \E i \in Invocations : Check(i)
    \/ \E i \in Invocations : FirstCall(i)
    \/ \E i \in Invocations : CancelCall(i)
    \/ \E i \in Invocations : Return(i)

SpecPar == Init /\ [][NextPar]_vars

(***************************************************************************)
(* Two invocations of data_science_job_runs, each a start or a cancel       *)
(* without job_run_id, of one job, served in parallel against a provider   *)
(* that keeps the job's runs.  The arguments are valid and the provider    *)
(* does not fail, so a step is a provider operation: create_job_run adds a *)
(* run, list_job_runs (newest first, limit 1) reads the newest,            *)
(* cancel_job_run marks the run it names.                                  *)
(***************************************************************************)
MaxRuns == 3

\* the OCID of the k-th run of the job
RunId(k) == [t |-> "str", s |-> <<"r">>, n |-> k]

\* a run as the provider keeps it; cancelled_at is the number of runs the job
\* had when the cancellation was requested
Run(k) == [id |-> RunId(k), cancelled |-> FALSE, cancelled_at |-> 0]

RaceParams ==
    [compartment_id |-> PyStr(<<"a">>), project_id |-> PyStr(<<"a">>),
     job_id |-> PyStr(<<"a">>), display_name |-> PyStr(<<"a">>),
     job_run_id |-> None, limit |-> None]

\* the starts entered and not yet at their create_job_run
PendingStarts == {i \in Invocations : inv[i].pc = "start"}

Serving == <<req, clients, calls, out, helper>>

EnterRun(i) ==
    /\ inv[i].pc = "idle"
    /\ \E a \in {"start", "cancel"} :
          /\ a = "start" => Len(runs) + Cardinality(PendingStarts) < MaxRuns
          /\ inv' = [inv EXCEPT
                       ![i] = [pc |-> IF a = "start" THEN "start" ELSE "list",
                               action |-> a, job_run_id |-> RaceParams.job_run_id,
                               calls |-> <<>>, out |-> [kind |-> "none"]]]
    /\ UNCHANGED <<Serving, runs>>

StartRun(i) ==
    /\ inv[i].pc = "start"
    /\ LET new == Run(Len(runs) + 1)
           c   == Call("create_job_run",
                       [project_id |-> RaceParams.project_id,
                        compartment_id |-> RaceParams.compartment_id,
                        job_id |-> RaceParams.job_id,
                        display_name |-> RaceParams.display_name],
                       [ok |-> TRUE, obj |-> new])
       IN /\ runs' = Append(runs, new)
          /\ inv' = [inv EXCEPT
                       ![i].calls = Append(@, c),
                       ![i].out = _ok("job_runs", "start",
                                      Dict([job_run_id |-> new.id, raw |-> new]), NoExtra),
                       ![i].pc = "done"]
    /\ UNCHANGED Serving

ListRuns(i) ==
    /\ inv[i].pc = "list"
    /\ LET data == IF runs = <<>> THEN <<>> ELSE <<runs[Len(runs)]>>
           c    == Call("list_job_runs", LatestJobRunArgs(RaceParams),
                        [ok |-> TRUE, data |-> data])
       IN inv' = [inv EXCEPT
                    ![i].calls = Append(@, c),
                    ![i].out = IF data = <<>>
                               THEN _ok("job_runs", "cancel", None,
                                        [message |-> "No job runs found to cancel."])
                               ELSE @,
                    ![i].job_run_id = IF data = <<>> THEN @ ELSE data[1].id,
                    ![i].pc = IF data = <<>> THEN "done" ELSE "cancel"]
    /\ UNCHANGED <<Serving, runs>>

\* the run cancel_job_run is asked to cancel: whichever is newest by then
CancelTargetNewest(i) == RunId(Len(runs))

\* the run cancel_job_run is asked to cancel: the local job_run_id
CancelTarget(i) == inv[i].job_run_id

CancelRun(i) ==
    /\ inv[i].pc = "cancel"
    /\ LET id == CancelTarget(i)
           c  == Call("cancel_job_run", [job_run_id |-> id], [ok |-> TRUE])
       IN /\ runs' = [k \in 1..Len(runs) |->
                         IF runs[k].id = id
                         THEN [runs[k] EXCEPT !.cancelled = TRUE,
                                              !.cancelled_at = Len(runs)]
                         ELSE runs[k]]
          /\ inv' = [inv EXCEPT
                       ![i].calls = Append(@, c),
                       ![i].out = _ok("job_runs", "cancel",
                                      Dict([job_run_id |-> id,
                                            cancel_requested |-> PyBool(TRUE)]),
                                      NoExtra),
                       ![i].pc = "done"]
    /\ UNCHANGED Serving

ReturnRun(i) ==
    /\ inv[i].pc = "done"
    /\ inv' = [inv EXCEPT ![i] = IdleFrame]
    /\ UNCHANGED <<Serving, runs>>

NextRuns ==
    \/ \E i \in Invocations : EnterRun(i)
    \/ \E i \in Invocations : StartRun(i)
    \/ \E i \in Invocations : ListRuns(i)
    \/ \E i \in Invocations : CancelRun(i)
    \/ \E i \in Invocations : ReturnRun(i)

SpecRuns == Init /\ [][NextRuns]_vars

(***************************************************************************)
(* Properties.                                                             *)
(***************************************************************************)
InTool == req.tool # "none"

ValidationError == out.kind = "error" /\ out.origin = "validation"

\* the resource name each tool reports, from the tool surface of the specification
ResourceOf(tool) ==
    CASE tool = "oci_ds_compartments"            -> "compartments"
      [] tool = "data_science_projects"          -> "projects"
      [] tool = "data_science_model_catalog"     -> "model_catalog"
      [] tool = "data_science_jobs"              -> "jobs"
      [] tool = "data_science_job_runs"          -> "job_runs"
      [] tool = "data_science_notebook_sessions" -> "notebook_sessions"
      [] tool = "data_science_pipelines"         -> "pipelines"
      [] tool = "data_science_pipeline_runs"     -> "pipeline_runs"
      [] tool = "data_science_model_deployments" -> "model_deployments"
      [] OTHER                                   -> "none"

\* a value is absent, or a string made of whitespace only
Blank(v) == v.t = "none" \/ (v.t = "str" /\ \A i \in 1..Len(v.s) : v.s[i] \in Whitespace)

CancelCalls == {i \in 1..Len(calls) : calls[i].op = "cancel_job_run"}

\* the TypeError by which an ADS whose list_models() takes no project_id keyword
\* rejects the call: the call never reached the provider
KeywordRejected(c) ==
    /\ c.op = "list_models"
    /\ "project_id" \in DOMAIN c.args
    /\ c.resp.etype = "TypeError"

\* C1: every error raised during an invocation reaches the caller with its
\* original message: whenever a provider operation of the invocation failed,
\* the invocation ends in an error carrying that failure's type and message
\* (not swallowed, not retried, not downgraded to a payload).
C1_ErrorsPropagate ==
    InTool =>
        \A i \in 1..Len(calls) :
            (~calls[i].resp.ok /\ ~KeywordRejected(calls[i])) =>
                /\ out.kind = "error"
                /\ out.etype = calls[i].resp.etype
                /\ out.msg = calls[i].resp.msg

\* C2: an invocation that fails validation has constructed no provider client
\* and made no provider call.
C2_ValidationBeforeClient ==
    (InTool /\ ValidationError) => (Len(clients) = 0 /\ Len(calls) = 0)

\* C3: an invocation that ends in a validation error has invoked no provider
\* operation, neither a read nor a mutation.
C3_ValidationErrorNoProviderCall ==
    (InTool /\ ValidationError) => Len(calls) = 0

\* C3 witness: job_runs cancel without a run identifier and without job_id fails
\* validation after its client was obtained, with no operation invoked.
C3_Witness ==
    /\ req.tool = "data_science_job_runs"
    /\ req.action = "cancel"
    /\ ValidationError
    /\ Len(clients) = 1
    /\ Len(calls) = 0

\* C4: _ok returns a payload whose resource, action and result equal its first
\* three arguments whatever the extra entries are; on a collision the fixed
\* field wins.
C4_FixedFieldsWin ==
    helper.fn = "_ok" =>
        /\ helper.out.kind = "ok"
        /\ helper.out.payload.resource = helper.resource
        /\ helper.out.payload.action = helper.action
        /\ helper.out.payload.result = helper.result

\* C5: every success payload of every tool has a resource field equal to the
\* tool's resource name, an action field equal to the requested action, and a
\* result field (possibly null).
C5_PayloadEchoesRequest ==
    (InTool /\ out.kind = "ok") =>
        /\ FixedFields \subseteq DOMAIN out.payload
        /\ out.payload.resource = ResourceOf(req.tool)
        /\ out.payload.action = req.action

\* C5 witness: pipeline_runs status answers with a success payload whose result
\* is null.
C5_Witness ==
    /\ req.tool = "data_science_pipeline_runs"
    /\ req.action = "status"
    /\ out.kind = "ok"
    /\ out.payload.result.t = "none"

\* the message of the specification, for the names and actions tried
MissingMessage(name, action) ==
    CASE name = "a" /\ action = "x"      -> "Missing required parameter 'a' for action='x'."
      [] name = "b" /\ action = "x"      -> "Missing required parameter 'b' for action='x'."
      [] name = "a" /\ action = "update" -> "Missing required parameter 'a' for action='update'."
      [] name = "b" /\ action = "update" -> "Missing required parameter 'b' for action='update'."

\* C6: _require fails, with the message "Missing required parameter '<name>'
\* for action='<action>'.", exactly when the value is absent or a string that
\* is empty or whitespace-only; for every other value (0 and False included) it
\* returns and nothing else changes.
C6_RequireExact ==
    helper.fn = "_require" =>
        /\ helper.out.raised <=> Blank(helper.value)
        /\ helper.out.raised =>
              /\ helper.out.etype = "ValueError"
              /\ helper.out.msg = MissingMessage(helper.name, helper.action)
        /\ Len(clients) = 0 /\ Len(calls) = 0 /\ out.kind = "none" /\ req = NoReq

\* C6 witness: a whitespace-only string has been rejected.
C6_Witness ==
    /\ helper.fn = "_require"
    /\ helper.value = PyStr(<<" ", "\t">>)
    /\ helper.out.raised

\* the names of the pairs, joined with ", ", built from the last name backwards
RECURSIVE NamesJoined(_)
NamesJoined(pairs) ==
    IF Len(pairs) = 0 THEN ""
    ELSE IF Len(pairs) = 1 THEN pairs[1][1]
    ELSE NamesJoined(SubSeq(pairs, 1, Len(pairs) - 1)) \o ", " \o pairs[Len(pairs)][1]

\* C7: _at_least_one fails exactly when every value of the pairs is absent or a
\* blank string, with a message that lists all the names comma-joined in the
\* order given and names the action; otherwise it returns silently.
C7_AtLeastOneExact ==
    helper.fn = "_at_least_one" =>
        /\ helper.out.raised <=>
              \A i \in 1..Len(helper.pairs) : Blank(helper.pairs[i][2])
        /\ helper.out.raised =>
              /\ helper.out.etype = "ValueError"
              /\ helper.out.msg = "At least one of [" \o NamesJoined(helper.pairs)
                     \o "] must be provided for action='" \o helper.action \o "'."
        /\ Len(clients) = 0 /\ Len(calls) = 0 /\ out.kind = "none"

\* C7 witness: (a, None), (b, "") has been rejected with both names listed.
C7_Witness ==
    /\ helper.fn = "_at_least_one"
    /\ helper.pairs = << <<"a", None>>, <<"b", PyStr(<<>>)>> >>
    /\ helper.action = "x"
    /\ helper.out.raised
    /\ helper.out.msg = "At least one of [a, b] must be provided for action='x'."

\* C8: an invocation whose action is not in the tool's action set ends in an
\* error signal, never in a payload with a result field, and the error raised
\* for the action carries the message "Unsupported action='<action>'".
C8_UnsupportedActionIsError ==
    (InTool /\ req.action = "bogus") =>
        /\ out.kind = "error"
        /\ out.origin = "unsupported" => out.msg = "Unsupported action='bogus'"

\* the run identifier was not given: the latest-run lookup is used
LatestLookup ==
    \/ /\ req.tool = "data_science_job_runs"
       /\ req.action \in {"status", "cancel"}
       /\ ~Truthy(req.params.job_run_id)
    \/ /\ req.tool = "data_science_pipeline_runs"
       /\ req.action = "status"
       /\ ~Truthy(req.params.pipeline_run_id)

\* the listing of the parent's runs returned
Listed ==
    /\ Len(calls) >= 1
    /\ calls[1].op \in {"list_job_runs", "list_pipeline_runs"}
    /\ calls[1].resp.ok

NoRunsMessage ==
    CASE req.tool = "data_science_pipeline_runs" -> "No pipeline runs found."
      [] req.action = "status"                   -> "No job runs found."
      [] req.action = "cancel"                   -> "No job runs found to cancel."

\* C9: in job_runs status, job_runs cancel and pipeline_runs status without a
\* run identifier, when the parent has zero runs the invocation returns a
\* success payload with result null and a "No ... found" message, and issues no
\* cancel call.
C9_NoRunsIsSuccess ==
    (InTool /\ LatestLookup /\ Listed /\ Len(calls[1].resp.data) = 0) =>
        /\ out.kind = "ok"
        /\ out.payload.result.t = "none"
        /\ "message" \in DOMAIN out.payload
        /\ out.payload.message = NoRunsMessage
        /\ CancelCalls = {}
        /\ Len(calls) = 1

\* C9 witness: job_runs cancel found no run and answered with a payload.
C9_Witness ==
    /\ req.tool = "data_science_job_runs"
    /\ req.action = "cancel"
    /\ LatestLookup
    /\ Listed
    /\ Len(calls[1].resp.data) = 0
    /\ out.kind = "ok"

\* C10: job_runs cancel without job_run_id, when the listing returns at least
\* one run, issues exactly one cancel call, against the identifier of the first
\* listed run, and (the cancel call returning) answers with that identifier and
\* cancel_requested true; with an explicit job_run_id, once the client is
\* obtained, it issues exactly one cancel call, against that identifier, and no
\* listing.
C10_CancelExactlyOnce ==
    (req.tool = "data_science_job_runs" /\ req.action = "cancel") =>
        /\ (LatestLookup /\ Listed /\ Len(calls[1].resp.data) >= 1) =>
              /\ CancelCalls = {2}
              /\ Len(calls) = 2
              /\ calls[2].args.job_run_id = calls[1].resp.data[1].id
              /\ calls[2].resp.ok =>
                    /\ out.kind = "ok"
                    /\ out.payload.result.d.job_run_id = calls[1].resp.data[1].id
                    /\ out.payload.result.d.cancel_requested = PyBool(TRUE)
        /\ (Truthy(req.params.job_run_id) /\ Len(clients) = 1) =>
              /\ CancelCalls = {1}
              /\ Len(calls) = 1
              /\ calls[1].args.job_run_id = req.params.job_run_id
              /\ calls[1].resp.ok =>
                    /\ out.kind = "ok"
                    /\ out.payload.result.d.job_run_id = req.params.job_run_id

\* C10 witness: two runs were listed, the first one was cancelled and reported.
C10_Witness ==
    /\ req.tool = "data_science_job_runs"
    /\ req.action = "cancel"
    /\ LatestLookup
    /\ Listed
    /\ calls[1].resp.data = <<Item2, Item1>>
    /\ Len(calls) = 2
    /\ calls[2].args.job_run_id = Item2.id
    /\ out.kind = "ok"

\* job_runs status or cancel, with the DataScienceClient obtained
JobRunById ==
    /\ req.tool = "data_science_job_runs"
    /\ req.action \in {"status", "cancel"}
    /\ Len(clients) = 1

\* C11: in job_runs status and cancel, a provided job_run_id makes the
\* invocation operate on exactly that run: one get/cancel call on it, no
\* listing, no check of compartment_id or job_id, and the provider's error when
\* that call fails; only without job_run_id are compartment_id and job_id
\* required.
C11_ExplicitRunId ==
    JobRunById =>
        /\ Truthy(req.params.job_run_id) =>
              /\ Len(calls) = 1
              /\ calls[1].op = (IF req.action = "status"
                                THEN "get_job_run" ELSE "cancel_job_run")
              /\ calls[1].args.job_run_id = req.params.job_run_id
              /\ ~ValidationError
              /\ ~calls[1].resp.ok =>
                    /\ out.kind = "error"
                    /\ out.etype = calls[1].resp.etype
                    /\ out.msg = calls[1].resp.msg
        /\ (~Truthy(req.params.job_run_id)
              /\ (Blank(req.params.compartment_id) \/ Blank(req.params.job_id))) =>
              /\ ValidationError
              /\ Len(calls) = 0

\* C11 witness: status of an explicit run, asked without compartment_id and
\* job_id, ended in the provider's error for that run.
C11_Witness ==
    /\ JobRunById
    /\ req.action = "status"
    /\ Truthy(req.params.job_run_id)
    /\ req.params.compartment_id = None
    /\ req.params.job_id = None
    /\ Len(calls) = 1
    /\ ~calls[1].resp.ok
    /\ out.kind = "error"
    /\ out.origin = "provider"

\* the listing actions that truncate what the provider returned
ClientSideListing ==
    \/ req.tool = "data_science_projects" /\ req.action = "list"
    \/ req.tool = "data_science_model_catalog"
          /\ req.action \in {"list_models", "list_version_sets"}
    \/ req.tool = "data_science_pipelines" /\ req.action = "list"
    \/ req.tool = "data_science_model_deployments" /\ req.action = "list"

\* the identifier a row of the result carries
RowId(row) ==
    CASE req.tool = "data_science_projects"   -> row.project_id
      [] req.action = "list_models"           -> row.model_id
      [] OTHER                                -> row.id

\* the items the result is made from: what the only listing call returned, or,
\* after the keyword fallback of list_models, the models of the requested
\* project among what the second call returned
ProvidedItems ==
    IF Len(calls) = 2
    THEN LET OfProject(m) == m.project_id = req.params.project_id
         IN SelectSeq(calls[2].resp.data, OfProject)
    ELSE calls[1].resp.data

\* C12: for projects list, model_catalog list_models and list_version_sets,
\* pipelines list and model_deployments list, the result is the first
\* min(limit, N) of the N provided items, in the provider's order, and all N
\* items in that order when no limit is given.
C12_LimitIsPrefix ==
    (ClientSideListing /\ out.kind = "ok") =>
        LET N    == Len(ProvidedItems)
            rows == out.payload.result.l
            K    == IF req.params.limit.t = "none" THEN N
                    ELSE IF req.params.limit.n < N THEN req.params.limit.n ELSE N
        IN /\ Len(rows) = K
           /\ \A i \in 1..K : RowId(rows[i]) = ProvidedItems[i].id

\* C12 witness: model_deployments list with limit 1 got two deployments and
\* returned the first.
C12_Witness ==
    /\ req.tool = "data_science_model_deployments"
    /\ req.action = "list"
    /\ req.params.limit = PyInt(1)
    /\ out.kind = "ok"
    /\ calls[1].resp.data = <<Item2, Item1>>
    /\ Len(out.payload.result.l) = 1
    /\ out.payload.result.l[1].id = Item2.id

\* the listing actions that hand the limit to the provider
ForwardingListing ==
    /\ req.tool \in {"data_science_job_runs", "data_science_pipeline_runs"}
    /\ req.action = "list"

\* the listing actions that take a limit
LimitedListing == ClientSideListing \/ ForwardingListing

LimitGiven == "limit" \in DOMAIN req.params /\ req.params.limit.t # "none"

NoLimitForwarded == \A i \in 1..Len(calls) : "limit" \notin DOMAIN calls[i].args

ListingAction ==
    \/ LimitedListing
    \/ req.tool \in {"data_science_jobs", "data_science_notebook_sessions"}
          /\ req.action = "list"

\* C14: a listing invoked with limit L returns a result of at most L entries
\* whatever number of items the provider returns.
C14_AtMostLimit ==
    (ListingAction /\ LimitGiven /\ out.kind = "ok") =>
        Len(out.payload.result.l) <= req.params.limit.n

\* C15: no provider operation is invoked a second time after it has failed, and
\* the first failing provider call ends the invocation with that error.
C15_NoRetry ==
    InTool =>
        \A i \in 1..Len(calls) :
            ~calls[i].resp.ok =>
                /\ \A j \in (i + 1)..Len(calls) : calls[j].op # calls[i].op
                /\ i = Len(calls)
                /\ out.kind = "error"
                /\ out.etype = calls[i].resp.etype
                /\ out.msg = calls[i].resp.msg

\* C16: for any interleaving of two invocations served in parallel, each
\* invocation ends with the clients, the provider calls and the response it
\* has when it runs alone against the same provider responses; nothing
\* carries over from an earlier or a concurrent invocation.
C16_InvocationsIndependent ==
    \A i \in Invocations :
        inv[i].pc = "done" =>
            LET alone == data_science_job_runs(inv[i].action, inv[i].p, inv[i].o)
            IN /\ inv[i].clients = alone.clients
               /\ inv[i].calls = alone.calls
               /\ inv[i].out = alone.out

\* C16 witness: a cancel that looked up its run and cancelled it has ended
\* while the other invocation, entered with an explicit job_run_id, is
\* between its checks and its provider call.
C16_Witness ==
    \E i, j \in Invocations :
        /\ i # j
        /\ inv[i].pc = "done"
        /\ inv[i].action = "cancel"
        /\ Len(inv[i].calls) = 2
        /\ inv[i].out.kind = "ok"
        /\ inv[j].pc = "cancel"
        /\ inv[j].p.job_run_id = PyStr(<<"b">>)

\* C17: projects and model_catalog require compartment_id for every action: an
\* invocation whose compartment_id is an empty or whitespace-only string fails
\* and invokes no provider operation.
C17_CompartmentRequired ==
    ( /\ req.tool \in {"data_science_projects", "data_science_model_catalog"}
      /\ req.action # "bogus"
      /\ req.params.compartment_id.t = "str"
      /\ Blank(req.params.compartment_id) ) =>
        /\ out.kind = "error"
        /\ calls = <<>>

\* the message _require gives for a parameter of pipeline_runs
PipelineRunsMissing(name, action) ==
    CASE name = "compartment_id" /\ action = "start"  ->
            "Missing required parameter 'compartment_id' for action='start'."
      [] name = "compartment_id" /\ action = "list"   ->
            "Missing required parameter 'compartment_id' for action='list'."
      [] name = "compartment_id" /\ action = "status" ->
            "Missing required parameter 'compartment_id' for action='status'."
      [] name = "pipeline_id" /\ action = "start"     ->
            "Missing required parameter 'pipeline_id' for action='start'."
      [] name = "pipeline_id" /\ action = "list"      ->
            "Missing required parameter 'pipeline_id' for action='list'."
      [] name = "pipeline_id" /\ action = "status"    ->
            "Missing required parameter 'pipeline_id' for action='status'."

\* C18: pipeline_runs start, list and status (status with an explicit
\* pipeline_run_id included) fail with a validation error naming the missing
\* parameter when compartment_id or pipeline_id is absent or blank, and then no
\* provider client is obtained and nothing is invoked; with both present the
\* invocation does not end in a validation error.
C18_PipelineRunsRequire ==
    (req.tool = "data_science_pipeline_runs" /\ req.action \in {"start", "list", "status"}) =>
        LET missing == IF Blank(req.params.compartment_id) THEN "compartment_id"
                       ELSE IF Blank(req.params.pipeline_id) THEN "pipeline_id"
                       ELSE "nothing"
        IN IF missing = "nothing" THEN ~ValidationError
           ELSE /\ ValidationError
                /\ out.etype = "ValueError"
                /\ out.msg = PipelineRunsMissing(missing, req.action)
                /\ clients = <<>>
                /\ calls = <<>>

\* C18 witness: status with an explicit pipeline_run_id and a whitespace-only
\* pipeline_id ended in the validation error.
C18_Witness ==
    /\ req.tool = "data_science_pipeline_runs"
    /\ req.action = "status"
    /\ req.params.pipeline_run_id = PyStr(<<"a">>)
    /\ req.params.compartment_id = PyStr(<<"a">>)
    /\ req.params.pipeline_id = PyStr(<<" ">>)
    /\ ValidationError
    /\ out.msg = "Missing required parameter 'pipeline_id' for action='status'."
    /\ clients = <<>>

\* the shapes of the requests that are flexible: their name ends in ".Flex"
FlexibleShapes == {"VM.Standard.E3.Flex", "VM.Standard.E4.Flex", "VM.Standard.E5.Flex"}

CreateCalls == {i \in 1..Len(calls) : calls[i].op = "create_notebook_session"}

\* C19: notebook_sessions create with a flex shape and without both ocpus and
\* memory_in_gbs fails validation and issues no create_notebook_session call;
\* with both (or a shape that is not flex) and compartment_id, project_id and
\* display_name present, the create call is issued once.
C19_FlexNeedsPair ==
    ( /\ req.tool = "data_science_notebook_sessions"
      /\ req.action = "create"
      /\ Len(clients) = 1
      /\ ~Blank(req.params.compartment_id)
      /\ ~Blank(req.params.project_id)
      /\ ~Blank(req.params.display_name) ) =>
        IF /\ req.params.shape \in FlexibleShapes
           /\ (req.params.ocpus.t = "none" \/ req.params.memory_in_gbs.t = "none")
        THEN ValidationError /\ CreateCalls = {}
        ELSE Cardinality(CreateCalls) = 1

\* an update that names nothing to change
UpdateOfNothing ==
    \/ /\ req.tool = "data_science_projects"
       /\ req.action = "update"
       /\ Blank(req.params.new_name)
       /\ Blank(req.params.new_description)
    \/ /\ req.tool = "data_science_jobs"
       /\ req.action = "update"
       /\ Blank(req.params.new_display_name)

\* C20: projects update with neither new_name nor new_description present and
\* non-blank, and jobs update with no present and non-blank new_display_name,
\* end in an error and issue no update call; when the identifier is present
\* (and, for projects, the catalog was built) the error is the at-least-one
\* validation error.
C20_UpdateNeedsChange ==
    UpdateOfNothing =>
        /\ out.kind = "error"
        /\ \A i \in 1..Len(calls) : calls[i].op \notin {"update_project", "update_job"}
        /\ (req.tool = "data_science_projects" /\ Len(clients) = 1
               /\ ~Blank(req.params.project_id)) =>
              /\ ValidationError
              /\ out.msg = "At least one of [new_name, new_description] must be provided for action='update'."
        /\ (req.tool = "data_science_jobs" /\ ~Blank(req.params.job_id)) =>
              /\ ValidationError
              /\ out.msg = "At least one of [new_display_name] must be provided for action='update'."

\* C20 witness: jobs update with a job_id and a whitespace-only new_display_name
\* ended in the at-least-one error without a client or a call.
C20_Witness ==
    /\ req.tool = "data_science_jobs"
    /\ req.action = "update"
    /\ req.params.job_id = PyStr(<<"a">>)
    /\ req.params.new_display_name = PyStr(<<" ">>)
    /\ ValidationError
    /\ out.msg = "At least one of [new_display_name] must be provided for action='update'."
    /\ clients = <<>>
    /\ calls = <<>>

\* the creation-time field the listing of each parent is sorted by
CreationTimeField ==
    IF req.tool = "data_science_job_runs" THEN "timeCreated" ELSE "timeAccepted"

\* C21: in job_runs status, job_runs cancel and pipeline_runs status without a
\* run identifier, the listing is requested for the parent, sorted by creation
\* time, descending, with limit 1, and the invocation operates on the first
\* record of what the listing returned: status answers with it, cancel cancels
\* its identifier.
C21_MostRecentChild ==
    (InTool /\ LatestLookup /\ Len(calls) >= 1) =>
        /\ calls[1].op = (IF req.tool = "data_science_job_runs"
                          THEN "list_job_runs" ELSE "list_pipeline_runs")
        /\ calls[1].args.compartment_id = req.params.compartment_id
        /\ calls[1].args.sort_by = Lit(CreationTimeField)
        /\ calls[1].args.sort_order = Lit("DESC")
        /\ calls[1].args.limit = PyInt(1)
        /\ (calls[1].resp.ok /\ calls[1].resp.data # <<>>) =>
              IF req.action = "status"
              THEN /\ Len(calls) = 1
                   /\ out.kind = "ok"
                   /\ out.payload.result = Dict(calls[1].resp.data[1])
              ELSE /\ Len(calls) = 2
                   /\ calls[2].op = "cancel_job_run"
                   /\ calls[2].args.job_run_id = calls[1].resp.data[1].id

\* C21 witness: pipeline_runs status without pipeline_run_id got two runs and
\* answered with the first.
C21_Witness ==
    /\ req.tool = "data_science_pipeline_runs"
    /\ req.action = "status"
    /\ req.params.pipeline_run_id = None
    /\ Len(calls) = 1
    /\ calls[1].args.sort_by = Lit("timeAccepted")
    /\ calls[1].resp.data = <<Item2, Item1>>
    /\ out.kind = "ok"
    /\ out.payload.result = Dict(Item2)

\* C22 as stated: an invocation invokes one provider operation, and a second
\* one only as the listing that resolves the most recent run.
C22_OneOperationPlusLatestLookup ==
    InTool =>
        /\ Len(calls) <= 2
        /\ out.kind = "ok" => Len(calls) >= 1
        /\ Len(calls) = 2 =>
              /\ LatestLookup
              /\ calls[1].op \in {"list_job_runs", "list_pipeline_runs"}

\* the pairs of provider operations one invocation makes
OperationPairs ==
    {<<"list_job_runs", "cancel_job_run">>,
     <<"Job.from_datascience_job", "Job.delete">>,
     <<"GenericModel.from_id", "download_artifact">>,
     <<"GenericModel.from_id", "GenericModel.deploy">>,
     <<"list_models", "list_models">>,
     <<"activate_notebook_session", "get_notebook_session">>}

\* C22, amended: an invocation invokes at most two provider operations and a
\* successful one at least one; when it invokes two, they are a lookup and
\* the operation proper: the latest-run listing before cancel_job_run, the
\* fetch of the job before Job.delete, the fetch of the model before
\* download_artifact or deploy, list_models again after the filtered
\* list_models was rejected, or get_notebook_session after
\* activate_notebook_session.
C22_AtMostTwoOperations ==
    InTool =>
        /\ Len(calls) <= 2
        /\ out.kind = "ok" => Len(calls) >= 1
        /\ Len(calls) = 2 => <<calls[1].op, calls[2].op>> \in OperationPairs

\* C22 witness: notebook_sessions activate requested the activation, looked
\* the session up and answered.
C22_Witness ==
    /\ req.tool = "data_science_notebook_sessions"
    /\ req.action = "activate"
    /\ Len(calls) = 2
    /\ calls[1].op = "activate_notebook_session"
    /\ calls[2].op = "get_notebook_session"
    /\ out.kind = "ok"

\* list_models asked for the models of one project, and answered
ListModelsOfProject ==
    /\ req.tool = "data_science_model_catalog"
    /\ req.action = "list_models"
    /\ Truthy(req.params.project_id)
    /\ out.kind = "ok"

\* the provider kept to the filter it accepted: the filtered listing holds
\* models of the requested project only
FilterHonoured ==
    \A k \in 1..Len(calls[1].resp.data) :
        calls[1].resp.data[k].project_id = req.params.project_id

\* C23: list_models with a project_id gives the same result on both paths.
\* When the provider accepts the filter (one call) the result is the listing
\* it returned; when the filtered call raises TypeError (two calls) the
\* result is the unfiltered listing restricted to the requested project.  With
\* the provider keeping to its filter, both are the models of the requested
\* project in the listing returned last, in the provider's order (up to the
\* limit), and no model of another project is in the result.
C23_FallbackEquivalent ==
    ListModelsOfProject =>
        LET wanted   == req.params.project_id
            listing  == calls[Len(calls)].resp.data
            Wanted(m) == m.project_id = wanted
            expected == SelectSeq(listing, Wanted)
            rows     == out.payload.result.l
            K        == IF req.params.limit.t = "none" \/ req.params.limit.n > Len(expected)
                        THEN Len(expected) ELSE req.params.limit.n
        IN /\ Len(calls) \in {1, 2}
           /\ "project_id" \in DOMAIN calls[1].args
           /\ calls[1].args.project_id = wanted
           /\ Len(calls) = 2 =>
                 /\ ~calls[1].resp.ok
                 /\ calls[1].resp.etype = "TypeError"
                 /\ calls[2].op = "list_models"
                 /\ "project_id" \notin DOMAIN calls[2].args
           /\ (Len(calls) = 2 \/ FilterHonoured) =>
                 /\ Len(rows) = K
                 /\ \A k \in 1..K :
                       /\ rows[k].model_id = expected[k].id
                       /\ rows[k].project_id = wanted

\* C23 witness: the filtered call was rejected, the unfiltered listing held a
\* model of another project first, and the result is the one model of the
\* requested project.
C23_Witness ==
    /\ ListModelsOfProject
    /\ req.params.project_id = PyStr(<<"a">>)
    /\ req.params.limit = None
    /\ Len(calls) = 2
    /\ calls[2].resp.data = <<Item2, Item1>>
    /\ Len(out.payload.result.l) = 1
    /\ out.payload.result.l[1].model_id = Item1.id

\* C24: job_runs list makes a single list_job_runs call that carries
\* compartment_id, carries job_id exactly when a non-empty job_id was given,
\* and carries limit exactly when a limit was given; when the call returns,
\* the result is every run returned, in the provider's order.
C24_JobRunsListCall ==
    (req.tool = "data_science_job_runs" /\ req.action = "list" /\ Len(calls) > 0) =>
        LET jobGiven == req.params.job_id.t = "str" /\ Len(req.params.job_id.s) > 0
        IN /\ Len(calls) = 1
           /\ calls[1].op = "list_job_runs"
           /\ calls[1].args.compartment_id = req.params.compartment_id
           /\ jobGiven <=> "job_id" \in DOMAIN calls[1].args
           /\ jobGiven => calls[1].args.job_id = req.params.job_id
           /\ (req.params.limit.t # "none") <=> "limit" \in DOMAIN calls[1].args
           /\ (req.params.limit.t # "none") => calls[1].args.limit = req.params.limit
           /\ DOMAIN calls[1].args \subseteq {"compartment_id", "job_id", "limit"}
           /\ calls[1].resp.ok =>
                 /\ out.kind = "ok"
                 /\ out.payload.result = List(calls[1].resp.data)

\* C24 witness: job_runs list with a job_id and limit 2 passed both on and
\* returned the two runs it got, in their order.
C24_Witness ==
    /\ req.tool = "data_science_job_runs"
    /\ req.action = "list"
    /\ req.params.job_id = PyStr(<<"a">>)
    /\ req.params.limit = PyInt(2)
    /\ Len(calls) = 1
    /\ calls[1].args.job_id = PyStr(<<"a">>)
    /\ calls[1].args.limit = PyInt(2)
    /\ calls[1].resp.data = <<Item2, Item1>>
    /\ out.kind = "ok"
    /\ out.payload.result.l = <<Item2, Item1>>

\* invocation i makes its cancel call in this step
Cancels(i) == inv[i].pc = "cancel" /\ inv'[i].pc = "done"

\* C25: in job_runs cancel without job_run_id, the cancel call names the run
\* the listing returned, and the provider's runs change in that run alone:
\* a run started by another invocation after the listing is left as it is,
\* and the listed, older run is the one cancelled.
C25_CancelsListedRun ==
    [][\A i \in Invocations :
          Cancels(i) =>
              LET listed == inv[i].calls[1].resp.data[1].id
              IN /\ inv'[i].calls[2].op = "cancel_job_run"
                 /\ inv'[i].calls[2].args.job_run_id = listed
                 /\ Len(runs') = Len(runs)
                 /\ \A k \in 1..Len(runs) :
                       IF runs[k].id = listed
                       THEN runs'[k].cancelled
                       ELSE runs'[k] = runs[k]]_vars

\* C25 witness: a cancel listed the first run as the newest, another
\* invocation then started a second run, and the cancel call, made when the
\* job had two runs, cancelled the first and left the second.
C25_Witness ==
    \E i, j \in Invocations :
        /\ i # j
        /\ inv[i].pc = "done"
        /\ inv[i].action = "cancel"
        /\ Len(inv[i].calls) = 2
        /\ inv[i].calls[1].resp.data[1].id = RunId(1)
        /\ inv[i].calls[2].args.job_run_id = RunId(1)
        /\ inv[j].pc = "done"
        /\ inv[j].action = "start"
        /\ inv[j].out.payload.result.d.job_run_id = RunId(2)
        /\ Len(runs) = 2
        /\ runs[1].cancelled
        /\ runs[1].cancelled_at = 2
        /\ ~runs[2].cancelled

ActivateCalls == {i \in 1..Len(calls) : calls[i].op = "activate_notebook_session"}

\* C26: notebook_sessions activate, once it reaches the provider, requests the
\* activation exactly once, as its first operation, for the session named;
\* the session lookup comes only after the activation was accepted, and when
\* the lookup fails the invocation ends in the lookup's error although the
\* activation has been requested.
C26_ActivateBeforeLookup ==
    ( /\ req.tool = "data_science_notebook_sessions"
      /\ req.action = "activate"
      /\ Len(calls) >= 1 ) =>
        /\ ActivateCalls = {1}
        /\ calls[1].args.notebook_session_id = req.params.notebook_session_id
        /\ Len(calls) = 2 <=> calls[1].resp.ok
        /\ Len(calls) = 2 =>
              /\ calls[2].op = "get_notebook_session"
              /\ ~calls[2].resp.ok =>
                    /\ out.kind = "error"
                    /\ out.etype = calls[2].resp.etype
                    /\ out.msg = calls[2].resp.msg

\* C26 witness: the activation was accepted, the lookup failed, and the
\* invocation ended in the lookup's error.
C26_Witness ==
    /\ req.tool = "data_science_notebook_sessions"
    /\ req.action = "activate"
    /\ Len(calls) = 2
    /\ calls[1].op = "activate_notebook_session"
    /\ calls[1].resp.ok
    /\ ~calls[2].resp.ok
    /\ out.kind = "error"
    /\ out.origin = "provider"

NonEmptyString(v) == v.t = "str" /\ Len(v.s) > 0

\* C27: an update call never reaches the provider empty.  A call of
\* update_project carries at least one of display_name and description, and
\* each one carried is a non-empty string, the one given as new_name or
\* new_description; a call of update_job carries a display_name that is a
\* string with a character that is not whitespace.
C27_UpdateNeverEmpty ==
    \A i \in 1..Len(calls) :
        /\ calls[i].op = "update_project" =>
              LET carried == DOMAIN calls[i].args \cap {"display_name", "description"}
              IN /\ carried # {}
                 /\ \A k \in carried : NonEmptyString(calls[i].args[k])
                 /\ "display_name" \in carried =>
                       calls[i].args.display_name = req.params.new_name
                 /\ "description" \in carried =>
                       calls[i].args.description = req.params.new_description
        /\ calls[i].op = "update_job" =>
              /\ "display_name" \in DOMAIN calls[i].args
              /\ calls[i].args.display_name.t = "str"
              /\ \E k \in 1..Len(calls[i].args.display_name.s) :
                    calls[i].args.display_name.s[k] \notin Whitespace

\* C27 witness: projects update with an empty new_name and a new_description
\* called update_project with the description alone.
C27_Witness ==
    /\ req.tool = "data_science_projects"
    /\ req.action = "update"
    /\ req.params.new_name = PyStr(<<>>)
    /\ req.params.new_description = PyStr(<<"a">>)
    /\ Len(calls) = 1
    /\ calls[1].op = "update_project"
    /\ DOMAIN calls[1].args = {"project_id", "description"}

\* the run identifier of the invocation
RunIdentifier ==
    IF req.tool = "data_science_job_runs"
    THEN req.params.job_run_id ELSE req.params.pipeline_run_id

RunIdentifierCalls ==
    {i \in 1..Len(calls) :
        calls[i].op \in {"get_job_run", "cancel_job_run", "get_pipeline_run"}}

\* C28: in job_runs status/cancel and pipeline_runs status, a run identifier
\* that is empty or whitespace-only is treated as omitted: the first provider
\* operation is the latest-run listing, and no get or cancel call is passed a
\* blank identifier.
C28_BlankRunIdIsOmitted ==
    ( /\ \/ req.tool = "data_science_job_runs" /\ req.action \in {"status", "cancel"}
         \/ req.tool = "data_science_pipeline_runs" /\ req.action = "status"
      /\ RunIdentifier.t = "str"
      /\ Blank(RunIdentifier)
      /\ Len(calls) >= 1 ) =>
        /\ calls[1].op \in {"list_job_runs", "list_pipeline_runs"}
        /\ \A i \in RunIdentifierCalls :
              \A k \in DOMAIN calls[i].args : ~Blank(calls[i].args[k])

\* jobs create_script with its four required parameters present
CreateScript ==
    /\ req.tool = "data_science_jobs"
    /\ req.action = "create_script"
    /\ ~Blank(req.params.compartment_id)
    /\ ~Blank(req.params.project_id)
    /\ ~Blank(req.params.script_path)
    /\ ~Blank(req.params.display_name)

\* C29: jobs create_script attaches a shape configuration to the job
\* infrastructure exactly when both ocpus and memory_in_gbs are given, with
\* those two values; with one or none given it attaches none, does not fail
\* validation, and in every case creates the job once.
C29_ShapeConfigNeedsBoth ==
    CreateScript =>
        LET both == req.params.ocpus.t # "none" /\ req.params.memory_in_gbs.t # "none"
        IN /\ ~ValidationError
           /\ Len(calls) = 1
           /\ calls[1].op = "Job.create"
           /\ both <=> "shape_config_details" \in DOMAIN calls[1].args.infrastructure
           /\ both => calls[1].args.infrastructure.shape_config_details =
                         [memory_in_gbs |-> req.params.memory_in_gbs,
                          ocpus |-> req.params.ocpus]
           /\ calls[1].resp.ok => out.kind = "ok"

\* C29 witness: create_script with ocpus alone created the job without a
\* shape configuration and answered with a payload.
C29_Witness ==
    /\ CreateScript
    /\ req.params.ocpus = PyInt(1)
    /\ req.params.memory_in_gbs = None
    /\ Len(calls) = 1
    /\ "shape_config_details" \notin DOMAIN calls[1].args.infrastructure
    /\ out.kind = "ok"

\* C30: get_oci_config either returns a configuration holding the
\* additional_user_agent entry or raises, and it raises exactly when the
\* configuration file fails to load; the client getter then ends in that
\* error without reaching the client constructor, and a tool invocation that
\* ends in it has built no client and invoked nothing.
C30_NoPartialConfig ==
    /\ helper.fn = "get_data_science_client" =>
          /\ helper.config.raised \/ "additional_user_agent" \in helper.config.config
          /\ helper.config.raised <=> ~helper.loads
          /\ ~helper.loads =>
                /\ helper.out.raised
                /\ helper.out.etype = helper.config.etype
                /\ helper.out.msg = helper.config.msg
                /\ helper.out.origin = "config"
          /\ (helper.loads /\ helper.constructs) => ~helper.out.raised
    /\ (InTool /\ out.kind = "error" /\ out.origin = "config") =>
          /\ clients = <<>>
          /\ calls = <<>>

\* C30 witness: the configuration file failed to load and the client getter
\* ended in get_oci_config's error although the constructor would have
\* accepted a configuration.
C30_Witness ==
    /\ helper.fn = "get_data_science_client"
    /\ ~helper.loads
    /\ helper.constructs
    /\ helper.config.raised
    /\ helper.out.raised
    /\ helper.out.origin = "config"

====
